---- MODULE Spec2Model ----
(***************************************************************************)
(* A model of the kopf operator framework core: the progress store         *)
(* (kopf/structs/progress.py), the handler runner that drives it, the      *)
(* discovery of watched dimensions (kopf/reactor/discovery.py) and the     *)
(* per-object queueing of events.                                          *)
(***************************************************************************)
EXTENDS Integers, Sequences, FiniteSets, TLC

(***************************************************************************)
(* Bounds of the model.                                                    *)
(***************************************************************************)
MaxTime == 3
MaxRetries == 4
MaxCalls == 4
MaxOps == 4

(***************************************************************************)
(* Values.  A JSON document holds integers only in this model: Python's    *)
(* None is None, True is True, a message or a handler's result is the      *)
(* number naming it, and an instant t is stored as its ISO-8601 text.      *)
(***************************************************************************)
None == -1
True == 1

isoformat(t) == 1000 + t
fromisoformat(s) == s - 1000

\* Python's truthiness of a stored value.
Truthy(v) == v /= None /\ v /= 0

\* The ids of the registered handlers.
HandlerIds == {"h1", "h2"}

\* Delays a handler or the runner may ask for (seconds); None is "no delay".
Delays == {None, 1}

\* Messages of exceptions, as f'{exc}' renders them: the text is kept as is.
Messages == {7, 8}
format_exc(exc) == exc

\* Results a handler may return: a dict such as {"ok": True}, or nothing, which
\* NoResult stands for (results are dicts, so None itself is not among them).
EmptyMap == [k \in {} |-> None]
NoResult == [k \in {"None"} |-> None]
Results == {[k \in {"ok"} |-> True]}

\* A result under another key, for the store used freely.
MoreResults == {[k \in {"count"} |-> 2]}

(***************************************************************************)
(* Python dicts: a dict is a function; d.update(u) and d.get(k, default).  *)
(***************************************************************************)
Update(d, u) ==
    [k \in (DOMAIN d) \cup (DOMAIN u) |-> IF k \in DOMAIN u THEN u[k] ELSE d[k]]

Get(d, k, default) == IF k \in DOMAIN d THEN d[k] ELSE default

(***************************************************************************)
(* The documents `body` and `patch`, as far as the progress store sees     *)
(* them: the keys status, status.kopf, status.kopf.progress (absent, null  *)
(* or a map of handler id to record), status.kopf.digest (absent, or a     *)
(* value that may be null) and status.<handler id> (the results).          *)
(***************************************************************************)
EmptyDoc ==
    [hasStatus |-> FALSE, hasKopf |-> FALSE,
     progressKey |-> "absent", progress |-> EmptyMap,
     hasDigest |-> FALSE, digest |-> None,
     results |-> EmptyMap]

\* doc.get('status', {}).get('kopf', {}).get('progress', {})
ProgressOf(doc) == IF doc.progressKey = "map" THEN doc.progress ELSE EmptyMap

\* The same lookup returns None, and the next .get or `in` on it raises.
ProgressIsNull(doc) == doc.progressKey = "null"

(***************************************************************************)
(* The reads of the progress store.                                        *)
(***************************************************************************)
is_started(body, h) == h \in DOMAIN ProgressOf(body)

\* is_finished reading the success flag only.
is_finished_success_only(body, h) ==
    Truthy(Get(Get(ProgressOf(body), h, EmptyMap), "success", None))

is_finished(body, h) ==
    LET progress == ProgressOf(body)
        success == Get(Get(progress, h, EmptyMap), "success", None)
        failure == Get(Get(progress, h, EmptyMap), "failure", None)
    IN  Truthy(success) \/ Truthy(failure)

get_awake_time(body, h) ==
    LET value == Get(Get(ProgressOf(body), h, EmptyMap), "delayed", None)
    IN  IF value = None THEN None ELSE fromisoformat(value)

\* is_sleeping that does not look at whether the handler is finished.
is_sleeping_finished_or_not(body, h, utcnow) ==
    LET ts == get_awake_time(body, h)
    IN  ts /= None /\ ts > utcnow

is_sleeping(body, h, utcnow) ==
    LET ts == get_awake_time(body, h)
        finished == is_finished(body, h)
    IN  ~finished /\ ts /= None /\ ts > utcnow

is_awakened(body, h, utcnow) ==
    LET finished == is_finished(body, h)
        sleeping == is_sleeping(body, h, utcnow)
    IN  ~finished /\ ~sleeping

\* get_start_time reading the body only.
get_start_time_body_only(body, patch, h) ==
    LET value == Get(Get(ProgressOf(body), h, EmptyMap), "started", None)
    IN  IF value = None THEN None ELSE fromisoformat(value)

get_start_time(body, patch, h) ==
    LET new_value == Get(Get(ProgressOf(patch), h, EmptyMap), "started", None)
        old_value == Get(Get(ProgressOf(body), h, EmptyMap), "started", None)
        value == IF Truthy(new_value) THEN new_value ELSE old_value
    IN  IF value = None THEN None ELSE fromisoformat(value)

\* get_retry_count always falling back to its default.
get_retry_count_default(body, h) == 0

get_retry_count(body, h) == Get(Get(ProgressOf(body), h, EmptyMap), "retries", 0)

(***************************************************************************)
(* The writes of the progress store.  Each goes through                    *)
(*   patch.setdefault('status', {}).setdefault('kopf', {})                 *)
(*        .setdefault('progress', {}).setdefault(handler.id, {}).update()  *)
(* which raises AttributeError when the patch holds progress: None.        *)
(***************************************************************************)
\* No write raises, whatever the patch holds.
WriteRaises_never(patch) == FALSE

WriteRaises(patch) == ProgressIsNull(patch)

WriteRecord(patch, h, fields) ==
    IF WriteRaises(patch)
    THEN [patch EXCEPT !.hasStatus = TRUE, !.hasKopf = TRUE]
    ELSE [patch EXCEPT !.hasStatus = TRUE, !.hasKopf = TRUE,
                       !.progressKey = "map",
                       !.progress = Update(ProgressOf(patch),
                           (h :> Update(Get(ProgressOf(patch), h, EmptyMap), fields)))]

\* set_start_time that replaces the record of the handler by the new field.
set_start_time_record_replaced(body, patch, h, utcnow) ==
    IF WriteRaises(patch)
    THEN [patch EXCEPT !.hasStatus = TRUE, !.hasKopf = TRUE]
    ELSE [patch EXCEPT !.hasStatus = TRUE, !.hasKopf = TRUE,
                       !.progressKey = "map",
                       !.progress = Update(ProgressOf(patch),
                           (h :> ("started" :> isoformat(utcnow))))]

set_start_time(body, patch, h, utcnow) ==
    WriteRecord(patch, h, ("started" :> isoformat(utcnow)))

set_awake_time(body, patch, h, delay, utcnow) ==
    LET ts == IF delay /= None THEN isoformat(utcnow + delay) ELSE None
    IN  WriteRecord(patch, h, ("delayed" :> ts))

\* set_retry_time that sets the delay and leaves the retries as they are.
set_retry_time_no_count(body, patch, h, delay, utcnow) ==
    set_awake_time(body, patch, h, delay, utcnow)

\* set_retry_time that writes the retries read, without adding one.
set_retry_time_same_count(body, patch, h, delay, utcnow) ==
    LET retry == get_retry_count(body, h)
    IN  set_awake_time(body, WriteRecord(patch, h, ("retries" :> retry)),
                       h, delay, utcnow)

set_retry_time(body, patch, h, delay, utcnow) ==
    LET retry == get_retry_count(body, h)
    IN  set_awake_time(body, WriteRecord(patch, h, ("retries" :> retry + 1)),
                       h, delay, utcnow)

\* store_failure that records the message and forgets the failure flag.
store_failure_no_flag(body, patch, h, exc, utcnow) ==
    WriteRecord(patch, h,
        ("stopped" :> isoformat(utcnow)) @@
        ("retries" :> get_retry_count(body, h) + 1) @@
        ("message" :> format_exc(exc)))

\* store_failure that marks the record as succeeded as well.
store_failure_both_flags(body, patch, h, exc, utcnow) ==
    WriteRecord(patch, h,
        ("stopped" :> isoformat(utcnow)) @@ ("failure" :> True) @@
        ("success" :> True) @@
        ("retries" :> get_retry_count(body, h) + 1) @@
        ("message" :> format_exc(exc)))

store_failure(body, patch, h, exc, utcnow) ==
    LET retry == get_retry_count(body, h)
    IN  WriteRecord(patch, h,
            ("stopped" :> isoformat(utcnow)) @@ ("failure" :> True) @@
            ("retries" :> retry + 1) @@ ("message" :> format_exc(exc)))

\* store_success that replaces status.<handler id> by the result.
store_success_results_replaced(body, patch, h, result, utcnow) ==
    LET retry == get_retry_count(body, h)
        written == WriteRecord(patch, h,
            ("stopped" :> isoformat(utcnow)) @@ ("success" :> True) @@
            ("retries" :> retry + 1) @@ ("message" :> None))
    IN  IF result /= NoResult /\ ~WriteRaises(patch)
        THEN [written EXCEPT !.results = Update(written.results, (h :> result))]
        ELSE written

store_success(body, patch, h, result, utcnow) ==
    LET retry == get_retry_count(body, h)
        written == WriteRecord(patch, h,
            ("stopped" :> isoformat(utcnow)) @@ ("success" :> True) @@
            ("retries" :> retry + 1) @@ ("message" :> None))
    IN  IF result /= NoResult /\ ~WriteRaises(patch)
        THEN [written EXCEPT !.results =
                 Update(written.results,
                        (h :> Update(Get(written.results, h, EmptyMap), result)))]
        ELSE written

\* body.setdefault('status', {}).setdefault('kopf', {}).get('digest', None):
\* the value read, and the body the two setdefault calls leave behind.
get_stored_digest(body) == IF body.hasDigest THEN body.digest ELSE None

get_stored_digest_body(body) == [body EXCEPT !.hasStatus = TRUE, !.hasKopf = TRUE]

set_stored_digest(body, patch, digest) ==
    [patch EXCEPT !.hasStatus = TRUE, !.hasKopf = TRUE,
                  !.hasDigest = TRUE, !.digest = digest]

\* purge_progress that stores the digest and leaves the progress in place.
purge_progress_digest_only(body, patch, digest) ==
    [patch EXCEPT !.hasStatus = TRUE, !.hasKopf = TRUE,
                  !.hasDigest = TRUE, !.digest = digest]

\* purge_progress that stores an empty map as the progress, not null.
purge_progress_empty_map(body, patch, digest) ==
    [patch EXCEPT !.hasStatus = TRUE, !.hasKopf = TRUE,
                  !.progressKey = "map", !.progress = EmptyMap,
                  !.hasDigest = TRUE, !.digest = digest]

purge_progress(body, patch, digest) ==
    [patch EXCEPT !.hasStatus = TRUE, !.hasKopf = TRUE,
                  !.progressKey = "null", !.progress = EmptyMap,
                  !.hasDigest = TRUE, !.digest = digest]

(***************************************************************************)
(* Persisting a patch: the API applies it to the object as a JSON merge    *)
(* patch (RFC 7386): a null deletes the key, a mapping is merged key by    *)
(* key, anything else replaces the value.                                  *)
(***************************************************************************)
MergeRecord(old, new) ==
    [k \in ((DOMAIN old) \cup (DOMAIN new)) \ {n \in DOMAIN new : new[n] = None}
        |-> IF k \in DOMAIN new THEN new[k] ELSE old[k]]

MergeMaps(old, new) ==
    [h \in (DOMAIN old) \cup (DOMAIN new)
        |-> IF h \in DOMAIN new
            THEN MergeRecord(Get(old, h, EmptyMap), new[h])
            ELSE old[h]]

MergePatch(body, patch) ==
    IF ~patch.hasStatus THEN body
    ELSE [hasStatus |-> TRUE,
          hasKopf |-> body.hasKopf \/ patch.hasKopf,
          progressKey |-> CASE patch.progressKey = "absent" -> body.progressKey
                            [] patch.progressKey = "null" -> "absent"
                            [] OTHER -> "map",
          progress |-> CASE patch.progressKey = "absent" -> body.progress
                         [] patch.progressKey = "null" -> EmptyMap
                         [] OTHER -> MergeMaps(ProgressOf(body), patch.progress),
          hasDigest |-> IF patch.hasDigest THEN patch.digest /= None
                        ELSE body.hasDigest,
          digest |-> IF patch.hasDigest THEN patch.digest ELSE body.digest,
          results |-> MergeMaps(body.results, patch.results)]

(***************************************************************************)
(* Handler declarations (the registry's entries) and what a handler's code *)
(* does when invoked.  The scripts are those of examples/03-exceptions,    *)
(* plus "any": a handler that may end any way each time.                   *)
(***************************************************************************)
RetriesLimit == 3

Declaration(id, script) ==
    [id |-> id, script |-> script,
     errors |-> IF script = "raisePermanent" THEN "PERMANENT" ELSE "TEMPORARY",
     retries |-> IF script = "raiseTemporary" THEN RetriesLimit ELSE None,
     backoff |-> 1]

Scripts == {"permanent", "temporaryTwice", "raiseTemporary", "raisePermanent", "any"}

Registries ==
    {<<Declaration("h1", s)>> : s \in Scripts}
    \cup {<<Declaration("h1", s), Declaration("h2", t)>> : s \in Scripts, t \in Scripts}

\* How one invocation of a handler ends.
Returned(result) == [kind |-> "result", result |-> result, exc |-> None, delay |-> None]
PermanentError(exc) == [kind |-> "permanent", result |-> NoResult, exc |-> exc, delay |-> None]
TemporaryError(exc, delay) == [kind |-> "temporary", result |-> NoResult, exc |-> exc, delay |-> delay]
Exception(exc) == [kind |-> "exception", result |-> NoResult, exc |-> exc, delay |-> None]

\* The outcomes of a handler's invocation, given how often it ran in this cycle.
Outcomes(decl, called) ==
    CASE decl.script = "permanent" -> {PermanentError(7)}
      [] decl.script = "temporaryTwice" ->
            IF called < 2 THEN {TemporaryError(8, 1)}
            ELSE {Returned([k \in {"ok"} |-> True])}
      [] decl.script \in {"raiseTemporary", "raisePermanent"} -> {Exception(8)}
      [] OTHER -> {Returned(r) : r \in Results \cup {NoResult}}
                  \cup {PermanentError(7), TemporaryError(8, 1), Exception(8)}

(***************************************************************************)
(* Discovery: the namespaces and resources (the dimensions) to watch.      *)
(***************************************************************************)
MaxTasks == 4
MaxDiscTime == 1

\* None among the namespaces: the whole cluster.
NoNamespace == "None"

NamespaceNames == {"ns1", "ns2"}

\* The `namespaces` an operator may be configured with.
NamespaceConfigs == {{NoNamespace}, {"ns1"}, {"ns*"}}

\* fnmatch.fnmatch, for the names and the patterns above.
fnmatch(name, pattern) == pattern = name \/ pattern = "ns*"

Resource(group, version, plural) ==
    [group |-> group, version |-> version, plural |-> plural]

\* ResourceGlob.check
check(glob, resource) ==
    /\ glob.group = "*" \/ glob.group = resource.group
    /\ glob.version = "*" \/ glob.version = resource.version
    /\ glob.plural = "*" \/ glob.plural = resource.plural

\* The globs of the registered handlers, and registry.has_handlers.
RegisteredGlobs ==
    {Resource("zalando.org", "v1", "kopfexamples"),
     Resource("zalando.org", "*", "kopfmulti")}

has_handlers(resource) == \E glob \in RegisteredGlobs : check(glob, resource)

\* The CRDs whose events the cluster may send: spec.group, spec.versions[*].name
\* and spec.names.plural of each.
CRDs ==
    {[group |-> "zalando.org", versions |-> <<"v1">>, plural |-> "kopfexamples"],
     [group |-> "zalando.org", versions |-> <<"v1alpha1", "v1">>, plural |-> "kopfmulti"],
     [group |-> "example.com", versions |-> <<"v1">>, plural |-> "others"]}

EventTypes == {"ADDED", "MODIFIED", "DELETED"}

CRD_CRD == Resource("apiextensions.k8s.io", "v1beta1", "customresourcedefinitions")
NAMESPACES == Resource("", "v1", "namespaces")

\* The callers of adjust_watchers: the processors of the two meta-watchers.
Callers == {"discover_namespace", "discover_resource"}

\* A watcher task: what it watches, the freeze_mode it was created with
\* ("toggle": the operator's toggle, "none": None) and its status.
Task(kind, key, freeze) ==
    [kind |-> kind, key |-> key, freeze |-> freeze, status |-> "running"]

\* The freeze_mode that discovery() binds into the processors it hands to the
\* meta-watchers: functools.partial binds processor, settings, namespaces (or
\* registry), dimensions and watchers, so the parameter keeps its default.
BoundFreezeMode == "none"

\* discovery(), up to its wait for the meta-watchers: the dimensions known in
\* advance and the meta-watchers spawned.
InitialDimensions(configured) ==
    [namespaces |-> IF NoNamespace \in configured THEN {NoNamespace} ELSE {},
     resources |-> {}]

InitialTasks(configured) ==
    (IF NoNamespace \notin InitialDimensions(configured).namespaces
     THEN <<Task("meta", <<NoNamespace, NAMESPACES>>, "toggle")>>
     ELSE <<>>)
    \o <<Task("meta", <<NoNamespace, CRD_CRD>>, "toggle")>>

\* itertools.product(dimensions.namespaces, dimensions.resources)
Product(dims) == dims.namespaces \X dims.resources

RECURSIVE SeqOf(_)
SeqOf(S) ==
    IF S = {} THEN <<>>
    ELSE LET x == CHOOSE y \in S : TRUE IN <<x>> \o SeqOf(S \ {x})

\* task.cancel(): a task that is done stays done.
Cancelled(ts, id) ==
    [ts EXCEPT ![id].status = IF @ = "running" THEN "cancelled" ELSE @]

(***************************************************************************)
(* Peering: the record of another peer, and whether it freezes this one.   *)
(***************************************************************************)
OwnPriority == 0
FreezePriority == 100
PeerLifetime == 1

NoPeer == [priority |-> 0, last_seen |-> None]

HigherPeerLive(p, utcnow) ==
    /\ p.last_seen /= None
    /\ p.priority > OwnPriority
    /\ utcnow - p.last_seen < PeerLifetime

(***************************************************************************)
(* Queueing: the objects whose events are multiplexed.                     *)
(***************************************************************************)
MaxEvents == 3

Uids == {"u1", "u2"}

(***************************************************************************)
(* Sleeping: sleep_or_wait (kopf/engines/sleeping.py).  A delay is a       *)
(* number of seconds or None; `delays` is one delay or a collection.       *)
(***************************************************************************)
MaxWake == 3
MaxLatency == 1

DelayValues == {None, -2, 0, 1, 2}

\* What a caller passes as `delays`: a lone delay, or a collection of up to two.
DelaysArgs ==
    {[collection |-> FALSE, items |-> <<d>>] : d \in DelayValues}
        \cup {[collection |-> TRUE, items |-> <<>>]}
        \cup {[collection |-> TRUE, items |-> <<d>>] : d \in DelayValues}
        \cup {[collection |-> TRUE, items |-> <<d, e>>] : d \in DelayValues, e \in DelayValues}

\* delays if isinstance(delays, Collection) else [delays]
passed_delays(delays) == delays.items

\* [delay for delay in passed_delays if delay is not None]
actual_delays(delays) ==
    LET passed == passed_delays(delays)
    IN  {passed[i] : i \in {j \in 1..Len(passed) : passed[j] /= None}}

Min(S) == CHOOSE x \in S : \A y \in S : x <= y
Max(S) == CHOOSE x \in S : \A y \in S : x >= y

minimal_delay_unfiltered(delays) ==
    LET passed == passed_delays(delays)
        all == {passed[i] : i \in 1..Len(passed)}
    IN  IF all = {} THEN 0 ELSE Min(all)

\* min(actual_delays) if actual_delays else 0
minimal_delay(delays) ==
    IF actual_delays(delays) = {} THEN 0 ELSE Min(actual_delays(delays))

Outcome(how, result, slept) == [how |-> how, result |-> result, slept |-> slept]

sleep_for_unclamped(minimal, wake, latency) ==
    IF minimal <= 0
    THEN {Outcome("nosleep", None, 0)}
    ELSE (IF wake = None \/ wake >= minimal
          THEN {Outcome("timeout", None, minimal)} ELSE {})
         \cup
         (IF wake /= None /\ wake <= minimal
          THEN {Outcome("event", minimal - (wake + latency), wake)} ELSE {})

\* A sleep that looks at the event first: a wakeup already set interrupts it
\* even when there is nothing to sleep for.
sleep_for_event_first(minimal, wake, latency) ==
    IF wake = 0
    THEN {Outcome("event", Max({0, minimal}), 0)}
    ELSE IF minimal <= 0
    THEN {Outcome("nosleep", None, 0)}
    ELSE (IF wake = None \/ wake >= minimal
          THEN {Outcome("timeout", None, minimal)} ELSE {})
         \cup
         (IF wake /= None /\ wake <= minimal
          THEN {Outcome("event", Max({0, minimal - (wake + latency)}), wake)} ELSE {})

\* The sleep for the minimal delay: none if there is nothing to sleep for;
\* else asyncio.wait_for(awakening_event.wait(), timeout=minimal_delay), where
\* the event is set `wake` seconds after the start (None: never) and the end
\* time is taken `latency` seconds after that.  The outcomes: how the sleep
\* ended, the result returned, and the time slept.
sleep_for(minimal, wake, latency) ==
    IF minimal <= 0
    THEN {Outcome("nosleep", None, 0)}
    ELSE (IF wake = None \/ wake >= minimal
          THEN {Outcome("timeout", None, minimal)} ELSE {})
         \cup
         (IF wake /= None /\ wake <= minimal
          THEN {Outcome("event", Max({0, minimal - (wake + latency)}), wake)} ELSE {})

sleep_or_wait(delays, wake, latency) ==
    sleep_for(minimal_delay(delays), wake, latency)

(***************************************************************************)
(* Throttling: the throttler and the steps of `throttled`.                 *)
(***************************************************************************)
MaxThrottleTime == 4
MaxErrors == 3

\* The `delays` a throttler may be configured with.
ThrottleDelays == {<<>>, <<1>>, <<1, 2>>}

\* containers.Throttler: source_of_delays is None (source_set is FALSE) or an
\* iterator, of which source_rest is what it has yet to give.
Throttler(source_set, source_rest, last_used_delay, active_until) ==
    [source_set |-> source_set, source_rest |-> source_rest,
     last_used_delay |-> last_used_delay, active_until |-> active_until]

NewThrottler == Throttler(FALSE, <<>>, None, None)

after_first_sleep_always_over(t, unslept_time) == [t EXCEPT !.active_until = None]

\* After the 1st sleep: if unslept_time is None: throttler.active_until = None
after_first_sleep(t, unslept_time) ==
    IF unslept_time = None THEN [t EXCEPT !.active_until = None] ELSE t

\* After the 2nd sleep: the same.
after_second_sleep(t, unslept_time) ==
    IF unslept_time = None THEN [t EXCEPT !.active_until = None] ELSE t

\* The captured error throttling for 0 seconds when there is no delay to take.
throttle_error_zero_delay(t, delays, monotonic) ==
    LET source == IF t.source_set THEN t.source_rest ELSE delays
        throttle_delay == IF source /= <<>> THEN Head(source)
                          ELSE IF t.last_used_delay /= None THEN t.last_used_delay
                          ELSE 0
        rest == IF source /= <<>> THEN Tail(source) ELSE <<>>
    IN  Throttler(TRUE, rest, throttle_delay, monotonic + throttle_delay)

throttle_error_restart(t, delays, monotonic) ==
    LET throttle_delay == IF delays /= <<>> THEN Head(delays) ELSE t.last_used_delay
    IN  IF throttle_delay /= None
        THEN Throttler(TRUE, IF delays /= <<>> THEN Tail(delays) ELSE <<>>,
                       throttle_delay, monotonic + throttle_delay)
        ELSE Throttler(TRUE, <<>>, t.last_used_delay, t.active_until)

\* The error of interest of a body that was advised to run: the sequence of
\* delays is started if there is none, the next delay is taken of it (the last
\* used one if it is exhausted), and the throttling is active for that long.
throttle_error(t, delays, monotonic) ==
    LET source == IF t.source_set THEN t.source_rest ELSE delays
        throttle_delay == IF source /= <<>> THEN Head(source) ELSE t.last_used_delay
        rest == IF source /= <<>> THEN Tail(source) ELSE <<>>
    IN  IF throttle_delay /= None
        THEN Throttler(TRUE, rest, throttle_delay, monotonic + throttle_delay)
        ELSE Throttler(TRUE, rest, t.last_used_delay, t.active_until)

\* The reset that releases the iterator and keeps the last used delay.
throttle_reset_source_only(t) == [t EXCEPT !.source_set = FALSE, !.source_rest = <<>>]

throttle_reset_keep_source(t) == [t EXCEPT !.last_used_delay = None]

\* throttler.source_of_delays = throttler.last_used_delay = None
throttle_reset(t) ==
    [t EXCEPT !.source_set = FALSE, !.source_rest = <<>>, !.last_used_delay = None]

(***************************************************************************)
(* Diffs (kopf/structs/diffs.py).  A value is a tree, kept as the set of    *)
(* its nodes <<path, kind>>: the root is at the path <<>>, the value of the *)
(* key k of a dict is the subtree below <<k>>.  A kind is <<type, n>>:      *)
(* <<"NoneType", 0>>, an integer <<"int", n>>, a list <<"list", n>> (lists  *)
(* are values as a whole), a dict <<"dict", 0>>.                            *)
(***************************************************************************)
MaxScalar == 2

Leaf(kind) == {<<<<>>, kind>>}
NoneValue == Leaf(<<"NoneType", 0>>)
Dict(f) ==
    Leaf(<<"dict", 0>>)
        \cup UNION {{<<<<k>> \o n[1], n[2]>> : n \in f[k]} : k \in DOMAIN f}

type_of(v) == (CHOOSE n \in v : n[1] = <<>>)[2][1]
keys(v) == {n[1][1] : n \in {m \in v : Len(m[1]) = 1}}
\* d[k]
item(d, k) ==
    {<<Tail(n[1]), n[2]>> : n \in {m \in d : Len(m[1]) >= 1 /\ m[1][1] = k}}

\* The keys, in the order in which a set of them is iterated.
KeyOrder == <<"x", "y">>
Leaves ==
    {NoneValue} \cup {Leaf(<<"int", i>>) : i \in 1..MaxScalar}
                \cup {Leaf(<<"list", 1>>)}
DictsOver(ks, values) ==
    {Dict(f) : f \in UNION {[K -> values] : K \in SUBSET ks}}
InnerDicts == DictsOver({"y"}, Leaves)
Dicts == DictsOver({"x", "y"}, Leaves \cup InnerDicts)
DiffValues == Leaves \cup Dicts
FieldPaths == {<<>>} \cup UNION {[1..n -> {"x", "y"}] : n \in 1..2}

DiffItem(operation, field, old, new) ==
    [operation |-> operation, field |-> field, old |-> old, new |-> new]

RECURSIVE Flatten(_)
Flatten(ss) == IF ss = <<>> THEN <<>> ELSE Head(ss) \o Flatten(Tail(ss))

\* The keys of the set ks, in the order of iteration.
Iterate(ks) == SelectSeq(KeyOrder, LAMBDA k : k \in ks)

RECURSIVE diff_iter_no_equal_check(_, _, _)
diff_iter_no_equal_check(a, b, path) ==
    IF a = NoneValue /\ b = NoneValue THEN <<>>
    ELSE IF a = NoneValue THEN <<DiffItem("add", path, a, b)>>
    ELSE IF b = NoneValue THEN <<DiffItem("remove", path, a, b)>>
    ELSE IF type_of(a) /= type_of(b) THEN <<DiffItem("change", path, a, b)>>
    ELSE IF type_of(a) = "dict"
    THEN LET added == Iterate(keys(b) \ keys(a))
             removed == Iterate(keys(a) \ keys(b))
             common == Iterate(keys(a) \cap keys(b))
         IN  Flatten([i \in 1..Len(added) |->
                 diff_iter_no_equal_check(NoneValue, item(b, added[i]),
                                          path \o <<added[i]>>)])
             \o Flatten([i \in 1..Len(removed) |->
                 diff_iter_no_equal_check(item(a, removed[i]), NoneValue,
                                          path \o <<removed[i]>>)])
             \o Flatten([i \in 1..Len(common) |->
                 diff_iter_no_equal_check(item(a, common[i]), item(b, common[i]),
                                          path \o <<common[i]>>)])
    ELSE <<DiffItem("change", path, a, b)>>

RECURSIVE diff_iter_no_removals(_, _, _)
diff_iter_no_removals(a, b, path) ==
    IF a = b THEN <<>>
    ELSE IF a = NoneValue THEN <<DiffItem("add", path, a, b)>>
    ELSE IF b = NoneValue THEN <<DiffItem("remove", path, a, b)>>
    ELSE IF type_of(a) /= type_of(b) THEN <<DiffItem("change", path, a, b)>>
    ELSE IF type_of(a) = "dict"
    THEN LET added == Iterate(keys(b) \ keys(a))
             common == Iterate(keys(a) \cap keys(b))
         IN  Flatten([i \in 1..Len(added) |->
                 diff_iter_no_removals(NoneValue, item(b, added[i]),
                                       path \o <<added[i]>>)])
             \o Flatten([i \in 1..Len(common) |->
                 diff_iter_no_removals(item(a, common[i]), item(b, common[i]),
                                       path \o <<common[i]>>)])
    ELSE <<DiffItem("change", path, a, b)>>

RECURSIVE diff_iter(_, _, _)
diff_iter(a, b, path) ==
    IF a = b THEN <<>>
    ELSE IF a = NoneValue THEN <<DiffItem("add", path, a, b)>>
    ELSE IF b = NoneValue THEN <<DiffItem("remove", path, a, b)>>
    ELSE IF type_of(a) /= type_of(b) THEN <<DiffItem("change", path, a, b)>>
    ELSE IF type_of(a) = "dict"
    THEN LET added == Iterate(keys(b) \ keys(a))
             removed == Iterate(keys(a) \ keys(b))
             common == Iterate(keys(a) \cap keys(b))
         IN  Flatten([i \in 1..Len(added) |->
                 diff_iter(NoneValue, item(b, added[i]), path \o <<added[i]>>)])
             \o Flatten([i \in 1..Len(removed) |->
                 diff_iter(item(a, removed[i]), NoneValue, path \o <<removed[i]>>)])
             \o Flatten([i \in 1..Len(common) |->
                 diff_iter(item(a, common[i]), item(b, common[i]),
                           path \o <<common[i]>>)])
    ELSE <<DiffItem("change", path, a, b)>>

diff(a, b) == diff_iter(a, b, <<>>)

\* dicts.resolve(d, path, default=None, assume_empty=True): the value at the
\* path; None where the field or a parent is absent or None; a TypeError
\* where a parent is neither a dict nor None.
TypeError == Leaf(<<"TypeError", 0>>)
RECURSIVE resolve(_, _)
resolve(d, path) ==
    IF path = <<>> THEN d
    ELSE IF d = NoneValue THEN NoneValue
    ELSE IF type_of(d) /= "dict" THEN TypeError
    ELSE IF Head(path) \notin keys(d) THEN NoneValue
    ELSE resolve(item(d, Head(path)), Tail(path))

\* What an iteration gives: the items, or the error raised on the way.
Yielded(items) == [raised |-> FALSE, items |-> items]
Raised == [raised |-> TRUE, items |-> <<>>]

IsPrefix(s, t) == Len(s) <= Len(t) /\ SubSeq(t, 1, Len(s)) = s

reduce_item_unresolved(i, path) ==
    IF path = <<>> THEN Yielded(<<i>>)
    ELSE IF IsPrefix(path, i.field)
    THEN Yielded(<<DiffItem(i.operation,
                            SubSeq(i.field, Len(path) + 1, Len(i.field)),
                            i.old, i.new)>>)
    ELSE IF IsPrefix(i.field, path)
    THEN Yielded(diff_iter(i.old, i.new, <<>>))
    ELSE Yielded(<<>>)

\* One round of the loop of reduce_iter.
reduce_item(i, path) ==
    IF path = <<>> THEN Yielded(<<i>>)
    ELSE IF IsPrefix(path, i.field)
    THEN Yielded(<<DiffItem(i.operation,
                            SubSeq(i.field, Len(path) + 1, Len(i.field)),
                            i.old, i.new)>>)
    ELSE IF IsPrefix(i.field, path)
    THEN LET tail == SubSeq(path, Len(i.field) + 1, Len(path))
             old_tail == resolve(i.old, tail)
             new_tail == resolve(i.new, tail)
         IN  IF old_tail = TypeError \/ new_tail = TypeError
             THEN Raised
             ELSE Yielded(diff_iter(old_tail, new_tail, <<>>))
    ELSE Yielded(<<>>)

\* A diff object: its items and its path; `raised`: it could not be built.
Selected(yielded, path) ==
    [raised |-> yielded.raised, items |-> yielded.items, path |-> path]

reduce_iter(d, path) ==
    LET rounds == [n \in 1..Len(d) |-> reduce_item(d[n], path)]
    IN  IF \E n \in 1..Len(d) : rounds[n].raised
        THEN Raised
        ELSE Yielded(Flatten([n \in 1..Len(d) |-> rounds[n].items]))

getitem_path_reset(d, field) ==
    IF d.raised THEN d ELSE Selected(reduce_iter(d.items, field), field)

\* Diff.__getitem__ with a field specifier: cls(reduce_iter(self, field),
\* path=self._path + field).
getitem(d, field) ==
    IF d.raised THEN d ELSE Selected(reduce_iter(d.items, field), d.path \o field)

(***************************************************************************)
(* URLs (kopf/structs/resources.py).  A string argument that is None is    *)
(* Absent; a URL is kept as its server and the parts of its path, which    *)
(* '/'.join() separates by slashes: <<"/api", "v1", "pods">> is            *)
(* /api/v1/pods.                                                           *)
(***************************************************************************)
Absent == "None"

UrlResources ==
    {Resource(g, v, "kopfexamples") : g \in {"", "zalando.org"}, v \in {"v1", "v1beta1"}}
UrlServers == {Absent, "https://host", "https://host/"}
UrlArgs ==
    [server : UrlServers, namespace : {Absent, "ns1"}, name : {Absent, "obj1"},
     subresource : {Absent, "status"}, params : {"", "watch=true"}]

AbsentArgs ==
    [server |-> Absent, namespace |-> Absent, name |-> Absent,
     subresource |-> Absent, params |-> ""]

\* [part for part in parts if part]
Truthful(parts) == SelectSeq(parts, LAMBDA part : part /= Absent /\ part /= "")

\* server.rstrip('/')
rstrip(server) == IF server = "https://host/" THEN "https://host" ELSE server

Url(server, path, query) ==
    [raised |-> FALSE, server |-> server, path |-> path, query |-> query]
ValueError == [raised |-> TRUE, server |-> Absent, path |-> <<>>, query |-> ""]

\* Resource._build_url: the leading slash of the path is the one that follows
\* the server.
build_url(server, params, parts) ==
    Url(IF server = Absent THEN Absent ELSE rstrip(server), Truthful(parts), params)

get_url_api_for_empty_group(resource, args) ==
    IF args.subresource /= Absent /\ args.name = Absent
    THEN ValueError
    ELSE build_url(args.server, args.params,
            <<IF resource.group = "" THEN "/api" ELSE "/apis",
              resource.group,
              resource.version,
              IF args.namespace /= Absent THEN "namespaces" ELSE Absent,
              args.namespace,
              resource.plural,
              args.name,
              args.subresource>>)

\* Resource.get_url
get_url(resource, args) ==
    IF args.subresource /= Absent /\ args.name = Absent
    THEN ValueError
    ELSE build_url(args.server, args.params,
            <<IF resource.group = "" /\ resource.version = "v1" THEN "/api" ELSE "/apis",
              resource.group,
              resource.version,
              IF args.namespace /= Absent THEN "namespaces" ELSE Absent,
              args.namespace,
              resource.plural,
              args.name,
              args.subresource>>)

\* Resource.get_version_url
get_version_url(resource, args) ==
    build_url(args.server, args.params,
        <<IF resource.group = "" /\ resource.version = "v1" THEN "/api" ELSE "/apis",
          resource.group,
          resource.version>>)

(***************************************************************************)
(* Fetching (kopf/clients/fetching.py): read_crd and read_obj, given the    *)
(* response of the API to their GET request.                               *)
(***************************************************************************)
\* The default of the `default` argument, and the values it may be given.
UNSET == "_UNSET.token"
Defaults == {UNSET, "None", "fallback"}
Statuses == {200, 401, 403, 404, 409, 500}
Servers == {"https://host"}

\* Resource.name: f'{plural}.{group}'.strip('.'), for the resources above.
resource_name(resource) ==
    IF resource.group = "" THEN resource.plural ELSE "kopfexamples.zalando.org"

\* What a call ends with: the value returned, or the status of the
\* aiohttp.ClientResponseError raised.
Return(value) == [how |-> "returned", value |-> value, status |-> 200]
ClientResponseError(status) == [how |-> "raised", value |-> "", status |-> status]

\* response.raise_for_status(); respdata = await response.json()
raise_for_status(status) ==
    IF status >= 400 THEN ClientResponseError(status) ELSE Return("respdata")

read_crd_url(resource, server) ==
    get_url(CRD_CRD, [AbsentArgs EXCEPT !.server = server,
                                        !.name = resource_name(resource)])

read_crd(default, status) ==
    LET response == raise_for_status(status)
    IN  IF response.how = "raised"
        THEN IF response.status \in {403, 404} /\ default /= UNSET
             THEN Return(default)
             ELSE response
        ELSE response

read_obj_url(resource, server, namespace, name, is_namespaced) ==
    get_url(resource, [AbsentArgs EXCEPT !.server = server,
                                         !.namespace = IF is_namespaced THEN namespace
                                                       ELSE Absent,
                                         !.name = name])

read_obj_default_for_any_error(default, status) ==
    LET response == raise_for_status(status)
    IN  IF response.how = "raised"
        THEN IF default /= UNSET THEN Return(default) ELSE response
        ELSE response

read_obj(default, status) ==
    LET response == raise_for_status(status)
    IN  IF response.how = "raised"
        THEN IF response.status \in {403, 404} /\ default /= UNSET
             THEN Return(default)
             ELSE response
        ELSE response

(***************************************************************************)
(* State.                                                                  *)
(***************************************************************************)
VARIABLES
    body,       \* the object's body as the latest event gives it (its status)
    patch,      \* the patch accumulated since the last PATCH request
    now,        \* datetime.utcnow(), in seconds
    lastOp,     \* the operation or step done last
    raised,     \* whether that operation raised
    ops,        \* the number of operations done so far (SpecStore)
    essence,    \* the object's essential state (spec and metadata)
    registry,   \* the declarations matching the object, in registration order
    phase,      \* "idle" between passes, "handling" within one
    idx,        \* the position in the registry of the next handler of the pass
    seen,       \* the essence the pass in progress was entered with
    calls,      \* per handler, its invocations since the last purge of progress
    changes,    \* how often the object was changed from outside
    dropped,    \* the unfinished handlers whose progress the last purge dropped
    namespaces,     \* discovery: the configured namespaces (None, names, globs)
    dimensions,     \* discovery: the namespaces and the resources watched
    watchers,       \* discovery: dimension key -> the task watching it
    tasks,          \* every watcher task spawned: its key, freeze_mode, status
    calls_pc,       \* per caller of adjust_watchers: "idle", "joining", "failed"
    calls_key,      \* per caller: the key whose watcher it is joining
    calls_task,     \* per caller: the task it is joining
    calls_todo,     \* per caller: the keys of its snapshot still to go through
    freeze_mode,    \* the freeze toggle of this operator: TRUE is on
    peer,           \* the record of the other peer: its priority and last_seen
    frozen_runs,    \* how often a handler ran while a higher peer was live
    overlapped,     \* per caller: another call was in flight during its call
    discovery_pc,   \* discovery(): "waiting", "stopping" (cancelled), "ended"
    streams,        \* queueing: object uid -> the backlog of its events
    workers,        \* queueing: the worker tasks
    arrived,        \* queueing: per uid, the events that have arrived
    completed,      \* queueing: per uid, the event processed last
    sl_delays,      \* sleep_or_wait: the delays passed
    sl_wake,        \* sleep_or_wait: when the wakeup is set (None: never)
    sl_latency,     \* sleep_or_wait: the delay in taking the end time
    sl_outcome,     \* sleep_or_wait: how it ended, its result, the time slept
    throttler,      \* throttled: the throttler
    th_delays,      \* throttled: the delays configured
    th_pc,          \* throttled: "idle", "body" (yielded), "exit" (body left)
    th_should_run,  \* throttled: the advice given to the body
    th_errors,      \* throttled: the errors captured since the last reset
    df_a,           \* diffs: the old value
    df_b,           \* diffs: the new value
    df_diff,        \* diffs: diff(a, b)
    df_path,        \* diffs: the field the diff is reduced to
    df_reduced,     \* diffs: reduce(diff(a, b), path)
    df_pc,          \* diffs: "values", "diffed", "reduced", "selected"
    df_field,       \* diffs: the field selected from the reduced diff
    df_selected,    \* diffs: d[path][field]
    url_resource,   \* URLs: the resource
    url_args,       \* URLs: the arguments of the call
    url_called,     \* URLs: the method called ("none": not yet)
    url_result,     \* URLs: the URL returned, or the error raised
    ft_fn,          \* fetching: the function called
    ft_default,     \* fetching: its default argument
    ft_pc,          \* fetching: "called", "requested", "done"
    ft_status,      \* fetching: the status of the response
    ft_result       \* fetching: what the call ended with

storeVars == <<body, patch, now, lastOp, raised, ops>>
runnerVars == <<essence, registry, phase, idx, seen, calls, changes, dropped>>

discVars == <<namespaces, dimensions, watchers, tasks, calls_pc, calls_key,
              calls_task, calls_todo, freeze_mode, peer, frozen_runs,
              overlapped, discovery_pc>>
queueVars == <<streams, workers, arrived, completed>>
sleepVars == <<sl_delays, sl_wake, sl_latency, sl_outcome>>
throttleVars == <<throttler, th_delays, th_pc, th_should_run, th_errors>>
diffVars == <<df_a, df_b, df_diff, df_path, df_reduced, df_pc, df_field,
              df_selected>>
urlVars == <<url_resource, url_args, url_called, url_result>>
fetchVars == <<ft_fn, ft_default, ft_pc, ft_status, ft_result>>
auxVars == <<sleepVars, throttleVars, diffVars, urlVars, fetchVars>>

vars == <<body, patch, now, lastOp, raised, ops,
          essence, registry, phase, idx, seen, calls, changes, dropped,
          namespaces, dimensions, watchers, tasks, calls_pc, calls_key,
          calls_task, calls_todo, freeze_mode, peer, frozen_runs,
          overlapped, discovery_pc,
          streams, workers, arrived, completed,
          sl_delays, sl_wake, sl_latency, sl_outcome,
          throttler, th_delays, th_pc, th_should_run, th_errors,
          df_a, df_b, df_diff, df_path, df_reduced, df_pc, df_field, df_selected,
          url_resource, url_args, url_called, url_result,
          ft_fn, ft_default, ft_pc, ft_status, ft_result>>

InitDocs ==
    /\ body = EmptyDoc
    /\ patch = EmptyDoc
    /\ now = 0
    /\ lastOp = "none"
    /\ raised = FALSE
    /\ ops = 0

InitRunner ==
    /\ essence = 0
    /\ phase = "idle"
    /\ idx = 1
    /\ seen = 0
    /\ calls = [h \in HandlerIds |-> 0]
    /\ changes = 0
    /\ dropped = {}

InitDiscovery(configured) ==
    /\ namespaces = configured
    /\ dimensions = InitialDimensions(configured)
    /\ watchers = EmptyMap
    /\ tasks = InitialTasks(configured)
    /\ calls_pc = [c \in Callers |-> "idle"]
    /\ calls_key = [c \in Callers |-> <<NoNamespace, CRD_CRD>>]
    /\ calls_task = [c \in Callers |-> 0]
    /\ calls_todo = [c \in Callers |-> {}]
    /\ freeze_mode = FALSE
    /\ peer = NoPeer
    /\ frozen_runs = 0
    /\ overlapped = [c \in Callers |-> FALSE]
    /\ discovery_pc = "waiting"

InitQueue ==
    /\ streams = EmptyMap
    /\ workers = {}
    /\ arrived = [u \in Uids |-> 0]
    /\ completed = [u \in Uids |-> 0]

NotCalled == Outcome("none", None, 0)

InitSleeping ==
    /\ sl_delays = [collection |-> TRUE, items |-> <<>>]
    /\ sl_wake = None
    /\ sl_latency = 0
    /\ sl_outcome = NotCalled

InitThrottling(delays) ==
    /\ throttler = NewThrottler
    /\ th_delays = delays
    /\ th_pc = "idle"
    /\ th_should_run = FALSE
    /\ th_errors = 0

InitValues(a, b) ==
    /\ df_a = a
    /\ df_b = b
    /\ df_diff = <<>>
    /\ df_path = <<>>
    /\ df_reduced = Yielded(<<>>)
    /\ df_pc = "values"
    /\ df_field = <<>>
    /\ df_selected = Selected(Yielded(<<>>), <<>>)

InitUrls(resource, args) ==
    /\ url_resource = resource
    /\ url_args = args
    /\ url_called = "none"
    /\ url_result = Url(Absent, <<>>, "")

InitFetching(fn, default) ==
    /\ ft_fn = fn
    /\ ft_default = default
    /\ ft_pc = "called"
    /\ ft_status = 200
    /\ ft_result = Return("")

InitStore ==
    /\ InitDocs
    /\ InitRunner
    /\ registry = <<>>
    /\ InitDiscovery({NoNamespace})
    /\ InitQueue
    /\ InitSleeping
    /\ InitThrottling(<<>>)
    /\ InitValues(NoneValue, NoneValue)
    /\ InitFetching("read_crd", UNSET)
    /\ InitUrls(NAMESPACES, AbsentArgs)

Init ==
    /\ InitDocs
    /\ InitRunner
    /\ registry \in Registries
    /\ InitDiscovery({NoNamespace})
    /\ InitQueue
    /\ InitSleeping
    /\ InitThrottling(<<>>)
    /\ InitValues(NoneValue, NoneValue)
    /\ InitFetching("read_crd", UNSET)
    /\ InitUrls(NAMESPACES, AbsentArgs)

InitDisc ==
    /\ InitDocs
    /\ InitRunner
    /\ registry = <<>>
    /\ \E configured \in NamespaceConfigs : InitDiscovery(configured)
    /\ InitQueue
    /\ InitSleeping
    /\ InitThrottling(<<>>)
    /\ InitValues(NoneValue, NoneValue)
    /\ InitFetching("read_crd", UNSET)
    /\ InitUrls(NAMESPACES, AbsentArgs)

InitQueueing ==
    /\ InitDocs
    /\ InitRunner
    /\ registry = <<>>
    /\ InitDiscovery({NoNamespace})
    /\ InitQueue
    /\ InitSleeping
    /\ InitThrottling(<<>>)
    /\ InitValues(NoneValue, NoneValue)
    /\ InitFetching("read_crd", UNSET)
    /\ InitUrls(NAMESPACES, AbsentArgs)

(***************************************************************************)
(* SpecStore: the progress store used freely, any operation in any order   *)
(* on any handler, with the patch persisted at any moment.                 *)
(***************************************************************************)
\* One write of the store: the patch it leaves, and whether it raised.
Step(op) ==
    /\ ops < MaxOps
    /\ ops' = ops + 1
    /\ lastOp' = op

Wrote(op, newPatch) ==
    /\ Step(op)
    /\ patch' = newPatch
    /\ raised' = WriteRaises(patch)
    /\ UNCHANGED <<body, now>>
    /\ UNCHANGED <<runnerVars, discVars, queueVars, auxVars>>

SetStartTime(h) ==
    Wrote("set_start_time", set_start_time(body, patch, h, now))

SetAwakeTime(h, delay) ==
    Wrote("set_awake_time", set_awake_time(body, patch, h, delay, now))

SetRetryTime(h, delay) ==
    /\ get_retry_count(body, h) < MaxRetries
    /\ Wrote("set_retry_time", set_retry_time(body, patch, h, delay, now))

StoreFailure(h, exc) ==
    /\ get_retry_count(body, h) < MaxRetries
    /\ Wrote("store_failure", store_failure(body, patch, h, exc, now))

StoreSuccess(h, result) ==
    /\ get_retry_count(body, h) < MaxRetries
    /\ Wrote("store_success", store_success(body, patch, h, result, now))

GetStoredDigest ==
    /\ body' = get_stored_digest_body(body)
    /\ Step("get_stored_digest")
    /\ raised' = FALSE
    /\ UNCHANGED <<patch, now>>
    /\ UNCHANGED <<runnerVars, discVars, queueVars, auxVars>>

SetStoredDigest(digest) ==
    /\ patch' = set_stored_digest(body, patch, digest)
    /\ Step("set_stored_digest")
    /\ raised' = FALSE
    /\ UNCHANGED <<body, now>>
    /\ UNCHANGED <<runnerVars, discVars, queueVars, auxVars>>

PurgeProgress(digest) ==
    /\ patch' = purge_progress(body, patch, digest)
    /\ Step("purge_progress")
    /\ raised' = FALSE
    /\ UNCHANGED <<body, now>>
    /\ UNCHANGED <<runnerVars, discVars, queueVars, auxVars>>

\* The PATCH request: the patch is merged into the object and a new one begins.
Persist ==
    /\ body' = MergePatch(body, patch)
    /\ patch' = EmptyDoc
    /\ Step("persist")
    /\ raised' = FALSE
    /\ UNCHANGED now
    /\ UNCHANGED <<runnerVars, discVars, queueVars, auxVars>>

StoreTick ==
    /\ now < MaxTime
    /\ now' = now + 1
    /\ Step("tick")
    /\ raised' = FALSE
    /\ UNCHANGED <<body, patch>>
    /\ UNCHANGED <<runnerVars, discVars, queueVars, auxVars>>

Digests == {None, 11, 12}

NextStore ==
    \/ \E h \in HandlerIds : SetStartTime(h)
    \/ \E h \in HandlerIds, d \in Delays : SetAwakeTime(h, d)
    \/ \E h \in HandlerIds, d \in Delays : SetRetryTime(h, d)
    \/ \E h \in HandlerIds, exc \in Messages : StoreFailure(h, exc)
    \/ \E h \in HandlerIds, r \in Results \cup MoreResults \cup {NoResult} :
            StoreSuccess(h, r)
    \/ GetStoredDigest
    \/ \E dg \in Digests : SetStoredDigest(dg)
    \/ \E dg \in Digests : PurgeProgress(dg)
    \/ Persist
    \/ StoreTick

SpecStore == InitStore /\ [][NextStore]_vars

(***************************************************************************)
(* Spec: the handler runner driving one object through its handlers.  A    *)
(* pass is one reaction to an event of the object: the stored digest is    *)
(* compared with the hash of the object's essence, the handlers are gone   *)
(* through in registry order, and the accumulated patch is persisted.      *)
(***************************************************************************)
MaxChanges == 2

\* The hash of the essential state of the object.
Hash(e) == 11 + e

\* The body merged with the pending patch: the object once the patch is persisted.
Merged == MergePatch(body, patch)

RecordOf(doc, h) == Get(ProgressOf(doc), h, EmptyMap)

RunnerStep(op) ==
    /\ lastOp' = op
    /\ UNCHANGED <<raised, ops, registry, discVars, queueVars, auxVars>>

\* No digest is stored: a new cycle is entered, and the digest is written.
EnterCycle ==
    /\ phase = "idle"
    /\ get_stored_digest(body) = None
    /\ body' = get_stored_digest_body(body)
    /\ patch' = set_stored_digest(body', patch, Hash(essence))
    /\ phase' = "handling"
    /\ idx' = 1
    /\ seen' = essence
    /\ dropped' = {}
    /\ RunnerStep("enter")
    /\ UNCHANGED <<now, essence, calls, changes>>

\* The stored digest is not the live hash: the object changed since the cycle
\* was entered (or since it was completed).  The progress is purged, and the
\* purge is persisted before anything else is done.
Invalidate ==
    /\ phase = "idle"
    /\ get_stored_digest(body) /= None
    /\ get_stored_digest(body) /= Hash(essence)
    /\ LET b == get_stored_digest_body(body)
       IN  body' = MergePatch(b, purge_progress(b, patch, None))
    /\ patch' = EmptyDoc
    /\ seen' = essence
    /\ calls' = [h \in HandlerIds |-> 0]
    /\ dropped' = {h \in DOMAIN ProgressOf(body) : ~is_finished(body, h)}
    /\ RunnerStep("invalidate")
    /\ UNCHANGED <<now, essence, phase, idx, changes>>

\* The stored digest is the live hash and progress is recorded: the cycle goes on.
Resume ==
    /\ phase = "idle"
    /\ get_stored_digest(body) = Hash(essence)
    /\ body.progressKey = "map"
    /\ body' = get_stored_digest_body(body)
    /\ phase' = "handling"
    /\ idx' = 1
    /\ seen' = essence
    /\ RunnerStep("resume")
    /\ UNCHANGED <<patch, now, essence, calls, changes, dropped>>

\* What the runner records for one outcome of handler `decl`.
LimitReached(decl) ==
    decl.retries /= None /\ get_retry_count(body, decl.id) + 1 >= decl.retries

Handle(decl, out, p) ==
    CASE out.kind = "result" -> store_success(body, p, decl.id, out.result, now)
      [] out.kind = "permanent" -> store_failure(body, p, decl.id, out.exc, now)
      [] out.kind = "temporary" ->
            IF LimitReached(decl)
            THEN store_failure(body, p, decl.id, out.exc, now)
            ELSE set_retry_time(body, p, decl.id, out.delay, now)
      [] OTHER ->
            IF decl.errors = "PERMANENT" \/ LimitReached(decl)
            THEN store_failure(body, p, decl.id, out.exc, now)
            ELSE set_retry_time(body, p, decl.id, decl.backoff, now)

\* The next handler of the pass is finished or sleeping: it is skipped.
Skip ==
    /\ phase = "handling"
    /\ idx <= Len(registry)
    /\ \/ is_finished(body, registry[idx].id)
       \/ is_sleeping(body, registry[idx].id, now)
    /\ idx' = idx + 1
    /\ RunnerStep("skip")
    /\ UNCHANGED <<body, patch, now, essence, phase, seen, calls, changes, dropped>>

\* The next handler of the pass is awakened: it is invoked, and its outcome stored.
Invoke ==
    /\ phase = "handling"
    /\ idx <= Len(registry)
    /\ LET decl == registry[idx]
           h == decl.id
           started == IF is_started(body, h) THEN patch
                      ELSE set_start_time(body, patch, h, now)
       IN  /\ is_awakened(body, h, now)
           /\ calls[h] < MaxCalls
           /\ get_retry_count(body, h) < MaxRetries
           /\ \E out \in Outcomes(decl, calls[h]) :
                 patch' = Handle(decl, out, started)
           /\ calls' = [calls EXCEPT ![h] = @ + 1]
    /\ idx' = idx + 1
    /\ RunnerStep("invoke")
    /\ UNCHANGED <<body, now, essence, phase, seen, changes, dropped>>

\* All handlers of the pass were gone through: when all have succeeded the
\* progress is purged and the digest of the handled state is stored; the
\* patch is persisted.
AllSucceeded(doc) ==
    \A i \in 1..Len(registry) :
        Truthy(Get(RecordOf(doc, registry[i].id), "success", None))

PassEnd ==
    /\ phase = "handling"
    /\ idx > Len(registry)
    /\ LET final == IF AllSucceeded(Merged)
                    THEN purge_progress(body, patch, Hash(seen))
                    ELSE patch
       IN  body' = MergePatch(body, final)
    /\ calls' = IF AllSucceeded(Merged) THEN [h \in HandlerIds |-> 0] ELSE calls
    /\ patch' = EmptyDoc
    /\ phase' = "idle"
    /\ RunnerStep("end")
    /\ UNCHANGED <<now, essence, idx, seen, changes, dropped>>

\* The object is changed from outside (kubectl edit): its essence changes.
ObjectChanged ==
    /\ changes < MaxChanges
    /\ changes' = changes + 1
    /\ essence' = 1 - essence
    /\ RunnerStep("changed")
    /\ UNCHANGED <<body, patch, now, phase, idx, seen, calls, dropped>>

Tick ==
    /\ now < MaxTime
    /\ now' = now + 1
    /\ RunnerStep("tick")
    /\ UNCHANGED <<body, patch, essence, phase, idx, seen, calls, changes, dropped>>

Next ==
    \/ EnterCycle
    \/ Invalidate
    \/ Resume
    \/ Skip
    \/ Invoke
    \/ PassEnd
    \/ ObjectChanged
    \/ Tick

Spec == Init /\ [][Next]_vars

(***************************************************************************)
(* SpecDisc: discovery with its two meta-watchers, the watchers of the     *)
(* dimensions, and the peer that may freeze the operator.                  *)
(***************************************************************************)
DiscStep(op) ==
    /\ lastOp' = op
    /\ UNCHANGED <<body, patch, raised, ops, runnerVars, queueVars, auxVars, namespaces,
                   discovery_pc>>

\* The resource that the meta-watcher of a caller watches.
CallerResource(c) == IF c = "discover_namespace" THEN NAMESPACES ELSE CRD_CRD

MetaWatcher(resource) ==
    {i \in 1..Len(tasks) : tasks[i].kind = "meta" /\ tasks[i].key[2] = resource}

\* A watcher task reads its stream: it is running, and not paused by the toggle.
Watching(task) ==
    /\ task.status = "running"
    /\ task.freeze = "none" \/ ~freeze_mode

\* adjust_watchers from the key after the one just handled: the keys of the
\* snapshot S still to go through, in the map w, with the tasks ts.  It runs
\* to its next await (the join of a cancelled watcher) or to its end.
Continue(c, S, w, ts, dims) ==
    LET gone == {k \in S : k[1] \notin dims.namespaces \/ k[2] \notin dims.resources}
    IN  IF gone = {}
        THEN /\ calls_pc' = [calls_pc EXCEPT ![c] = "idle"]
             /\ calls_todo' = [calls_todo EXCEPT ![c] = {}]
             /\ watchers' = w
             /\ tasks' = ts
             /\ UNCHANGED <<calls_key, calls_task>>
        ELSE \E k \in gone :
                IF k \notin DOMAIN w
                THEN \* watchers[key] raises KeyError
                     /\ calls_pc' = [calls_pc EXCEPT ![c] = "failed"]
                     /\ calls_todo' = [calls_todo EXCEPT ![c] = {}]
                     /\ watchers' = w
                     /\ tasks' = ts
                     /\ UNCHANGED <<calls_key, calls_task>>
                ELSE \E T \in SUBSET (S \ {k}) :
                     /\ gone \ {k} \subseteq T
                     /\ calls_pc' = [calls_pc EXCEPT ![c] = "joining"]
                     /\ calls_key' = [calls_key EXCEPT ![c] = k]
                     /\ calls_task' = [calls_task EXCEPT ![c] = w[k]]
                     /\ calls_todo' = [calls_todo EXCEPT ![c] = T]
                     /\ watchers' = w
                     /\ tasks' = Cancelled(ts, w[k])

\* A call starts: it overlaps the calls in flight, and they overlap it.
Overlap(c) ==
    IF \E o \in Callers \ {c} : calls_pc[o] = "joining"
    THEN [x \in Callers |-> TRUE]
    ELSE [overlapped EXCEPT ![c] = FALSE]

adjust_watchers_no_spawn(c, dims, freeze) ==
    /\ overlapped' = Overlap(c)
    /\ Continue(c, DOMAIN watchers, watchers, tasks, dims)

\* adjust_watchers from its start: a watcher is spawned for every pair that
\* has none, then the keys of the map are gone through.
adjust_watchers(c, dims, freeze) ==
    LET new == SeqOf(Product(dims) \ DOMAIN watchers)
        ts == tasks \o [i \in 1..Len(new) |-> Task("dimension", new[i], freeze)]
        w == [k \in (DOMAIN watchers) \cup Product(dims) |->
                 IF k \in DOMAIN watchers THEN watchers[k]
                 ELSE CHOOSE i \in 1..Len(new) : new[i] = k] 
        spawned == [k \in DOMAIN w |->
                       IF k \in DOMAIN watchers THEN watchers[k]
                       ELSE Len(tasks) + w[k]]
    IN  /\ Len(ts) <= MaxTasks
        /\ overlapped' = Overlap(c)
        /\ Continue(c, DOMAIN spawned, spawned, ts, dims)

\* The processor of a meta-watcher takes the next event: the meta-watcher is
\* watching, and its previous event is done with.
Processing(c, resource) ==
    /\ calls_pc[c] /= "joining"
    /\ \E i \in MetaWatcher(resource) : Watching(tasks[i])

discover_namespace_any_namespace(type, namespace) ==
    /\ Processing("discover_namespace", NAMESPACES)
    /\ LET dims == [dimensions EXCEPT !.namespaces =
                       IF type = "DELETED" THEN @ \ {namespace}
                       ELSE @ \cup {namespace}]
       IN  /\ dimensions' = dims
           /\ adjust_watchers("discover_namespace", dims, BoundFreezeMode)
    /\ DiscStep("discover_namespace")
    /\ UNCHANGED <<now, freeze_mode, peer, frozen_runs>>

discover_namespace(type, namespace) ==
    /\ Processing("discover_namespace", NAMESPACES)
    /\ LET cluster == NoNamespace \in namespaces
           matches == cluster \/ \E pattern \in namespaces : fnmatch(namespace, pattern)
           dims == [dimensions EXCEPT !.namespaces =
                       IF type = "DELETED" THEN @ \ {namespace}
                       ELSE IF matches THEN @ \cup {namespace}
                       ELSE @]
       IN  /\ dimensions' = dims
           /\ adjust_watchers("discover_namespace", dims, BoundFreezeMode)
    /\ DiscStep("discover_namespace")
    /\ UNCHANGED <<now, freeze_mode, peer, frozen_runs>>

discover_resource_unfiltered(type, crd) ==
    /\ Processing("discover_resource", CRD_CRD)
    /\ LET resource == Resource(crd.group, crd.versions[1], crd.plural)
           dims == [dimensions EXCEPT !.resources =
                       IF type = "DELETED" THEN @ \ {resource}
                       ELSE @ \cup {resource}]
       IN  /\ dimensions' = dims
           /\ adjust_watchers("discover_resource", dims, BoundFreezeMode)
           /\ DiscStep("discover_resource")
    /\ UNCHANGED <<now, freeze_mode, peer, frozen_runs>>

discover_resource(type, crd) ==
    /\ Processing("discover_resource", CRD_CRD)
    /\ LET resource == Resource(crd.group, crd.versions[1], crd.plural)
           dims == [dimensions EXCEPT !.resources =
                       IF type = "DELETED" THEN @ \ {resource}
                       ELSE @ \cup {resource}]
       IN  IF ~has_handlers(resource)
           THEN /\ UNCHANGED <<dimensions, watchers, tasks, overlapped,
                               calls_pc, calls_key, calls_task, calls_todo>>
                /\ DiscStep("ignored")
           ELSE /\ dimensions' = dims
                /\ adjust_watchers("discover_resource", dims, BoundFreezeMode)
                /\ DiscStep("discover_resource")
    /\ UNCHANGED <<now, freeze_mode, peer, frozen_runs>>

\* The watcher that a call of adjust_watchers is joining has completed: the
\* call deletes the key and goes on with the keys of its snapshot.
Joined(c) ==
    /\ calls_pc[c] = "joining"
    /\ \E i \in MetaWatcher(CallerResource(c)) : tasks[i].status = "running"
    /\ tasks[calls_task[c]].status = "done"
    /\ IF calls_key[c] \notin DOMAIN watchers
       THEN \* del watchers[key] raises KeyError
            /\ calls_pc' = [calls_pc EXCEPT ![c] = "failed"]
            /\ calls_todo' = [calls_todo EXCEPT ![c] = {}]
            /\ UNCHANGED <<watchers, tasks, calls_key, calls_task>>
       ELSE Continue(c, calls_todo[c],
                     [k \in (DOMAIN watchers) \ {calls_key[c]} |-> watchers[k]],
                     tasks, dimensions)
    /\ DiscStep("joined")
    /\ UNCHANGED <<now, overlapped, dimensions, freeze_mode, peer, frozen_runs>>

\* A cancelled watcher task ends.
TaskDone(i) ==
    /\ tasks[i].status = "cancelled"
    /\ tasks' = [tasks EXCEPT ![i].status = "done"]
    /\ DiscStep("task_done")
    /\ UNCHANGED <<now, overlapped, dimensions, watchers, calls_pc, calls_key, calls_task,
                   calls_todo, freeze_mode, peer, frozen_runs>>

\* The watcher of a dimension hands an event of an object to the processor,
\* whose handlers run.
MaxFrozenRuns == 1

WatcherEvent(i) ==
    /\ tasks[i].kind = "dimension"
    /\ Watching(tasks[i])
    /\ frozen_runs' = IF HigherPeerLive(peer, now) /\ frozen_runs < MaxFrozenRuns
                      THEN frozen_runs + 1 ELSE frozen_runs
    /\ DiscStep("handlers")
    /\ UNCHANGED <<now, overlapped, dimensions, watchers, tasks, calls_pc, calls_key,
                   calls_task, calls_todo, freeze_mode, peer>>

\* Another peer writes its record (kopf freeze, or another operator); this
\* operator sees the record and sets its toggle.
PeerKeepalive(priority) ==
    /\ peer' = [priority |-> priority, last_seen |-> now]
    /\ freeze_mode' = HigherPeerLive(peer', now)
    /\ DiscStep("keepalive")
    /\ UNCHANGED <<now, overlapped, dimensions, watchers, tasks, calls_pc, calls_key,
                   calls_task, calls_todo, frozen_runs>>

\* The other peer removes its record (kopf resume).
PeerDisappear ==
    /\ peer /= NoPeer
    /\ peer' = NoPeer
    /\ freeze_mode' = FALSE
    /\ DiscStep("disappear")
    /\ UNCHANGED <<now, overlapped, dimensions, watchers, tasks, calls_pc, calls_key,
                   calls_task, calls_todo, frozen_runs>>

\* Time passes; a peer not seen for its lifetime is dead, and the toggle is reset.
DiscTick ==
    /\ now < MaxDiscTime
    /\ now' = now + 1
    /\ freeze_mode' = HigherPeerLive(peer, now')
    /\ DiscStep("tick")
    /\ UNCHANGED <<dimensions, watchers, tasks, calls_pc, calls_key,
                   calls_task, calls_todo, peer, frozen_runs, overlapped>>

NextDisc ==
    \/ \E type \in EventTypes, name \in NamespaceNames : discover_namespace(type, name)
    \/ \E type \in EventTypes, crd \in CRDs : discover_resource(type, crd)
    \/ \E c \in Callers : Joined(c)
    \/ \E i \in 1..Len(tasks) : TaskDone(i)
    \/ \E i \in 1..Len(tasks) : WatcherEvent(i)
    \/ \E priority \in {OwnPriority, FreezePriority} : PeerKeepalive(priority)
    \/ PeerDisappear
    \/ DiscTick

SpecDisc == InitDisc /\ [][NextDisc]_vars

(***************************************************************************)
(* SpecCancel: discovery and its watchers, and the cancellation of the      *)
(* discovery task.                                                         *)
(***************************************************************************)
CancelStep(op) ==
    /\ lastOp' = op
    /\ UNCHANGED <<body, patch, now, raised, ops, runnerVars, queueVars, auxVars,
                   namespaces, dimensions, watchers, calls_pc, calls_key,
                   calls_task, calls_todo, freeze_mode, peer, frozen_runs,
                   overlapped>>

all_watchers_meta_only ==
    {i \in 1..Len(tasks) : tasks[i].kind = "meta"}

\* frozenset(dimensions_watchers) | frozenset(watchers.values())
all_watchers ==
    {i \in 1..Len(tasks) : tasks[i].kind = "meta"}
        \cup {watchers[k] : k \in DOMAIN watchers}

\* The discovery task is cancelled while it waits for its meta-watchers: it
\* cancels all the watchers it knows of, and goes on to wait for them.
CancelDiscovery ==
    /\ discovery_pc = "waiting"
    /\ discovery_pc' = "stopping"
    /\ tasks' = [i \in 1..Len(tasks) |->
                    IF i \in all_watchers THEN Cancelled(tasks, i)[i] ELSE tasks[i]]
    /\ CancelStep("cancel")

\* All the watchers waited for have completed: the cancellation is re-raised,
\* and the discovery task ends.
DiscoveryEnds ==
    /\ discovery_pc = "stopping"
    /\ \A i \in all_watchers : tasks[i].status = "done"
    /\ discovery_pc' = "ended"
    /\ UNCHANGED tasks
    /\ CancelStep("reraise")

NextCancel ==
    \/ \E type \in EventTypes, name \in NamespaceNames : discover_namespace(type, name)
    \/ \E type \in EventTypes, crd \in CRDs : discover_resource(type, crd)
    \/ \E c \in Callers : Joined(c)
    \/ \E i \in 1..Len(tasks) : TaskDone(i)
    \/ \E i \in 1..Len(tasks) : WatcherEvent(i)
    \/ CancelDiscovery
    \/ DiscoveryEnds

SpecCancel == InitDisc /\ [][NextCancel]_vars


(***************************************************************************)
(* SpecQueue: the queue multiplexer.  The events of the watchers are put   *)
(* into the stream of their object; one worker per object processes them.  *)
(***************************************************************************)
QueueStep(op) ==
    /\ lastOp' = op
    /\ UNCHANGED <<body, patch, now, raised, ops, runnerVars, discVars, auxVars>>

HasStream_never(uid) == FALSE

\* The multiplexer has a stream, and so a worker, for the object.
HasStream(uid) == uid \in DOMAIN streams

Worker(uid, born) == [uid |-> uid, born |-> born, state |-> "waiting", ev |-> 0]

\* A watcher delivers the next event of an object: into the stream of the
\* object if there is one, else into a new stream with a new worker.
QueueEvent(uid) ==
    /\ arrived[uid] < MaxEvents
    /\ LET ev == arrived[uid] + 1
       IN  /\ arrived' = [arrived EXCEPT ![uid] = ev]
           /\ IF HasStream(uid)
              THEN /\ streams' = [streams EXCEPT ![uid] = Append(@, ev)]
                   /\ UNCHANGED workers
              ELSE /\ streams' = [u \in (DOMAIN streams) \cup {uid} |->
                                     IF u = uid THEN <<ev>> ELSE streams[u]]
                   /\ workers' = workers \cup {Worker(uid, ev)}
    /\ QueueStep("event")
    /\ UNCHANGED completed

\* A waiting worker takes the events of its stream: it goes on with the latest
\* one (the batch is coalesced), whose handlers are invoked.
WorkerTake(w) ==
    /\ w \in workers
    /\ w.state = "waiting"
    /\ w.uid \in DOMAIN streams
    /\ streams[w.uid] /= <<>>
    /\ LET backlog == streams[w.uid]
       IN  workers' = (workers \ {w}) \cup
                          {[w EXCEPT !.state = "processing", !.ev = backlog[Len(backlog)]]}
    /\ streams' = [streams EXCEPT ![w.uid] = <<>>]
    /\ QueueStep("take")
    /\ UNCHANGED <<arrived, completed>>

\* The processing of the event is completed.
WorkerDone(w) ==
    /\ w \in workers
    /\ w.state = "processing"
    /\ workers' = (workers \ {w}) \cup {[w EXCEPT !.state = "waiting"]}
    /\ completed' = [completed EXCEPT ![w.uid] = w.ev]
    /\ QueueStep("done")
    /\ UNCHANGED <<streams, arrived>>

\* A worker with nothing in its stream for the idle timeout ends, and the
\* stream of its object is removed.
WorkerIdle(w) ==
    /\ w \in workers
    /\ w.state = "waiting"
    /\ w.uid \in DOMAIN streams
    /\ streams[w.uid] = <<>>
    /\ workers' = workers \ {w}
    /\ streams' = [u \in (DOMAIN streams) \ {w.uid} |-> streams[u]]
    /\ QueueStep("idle")
    /\ UNCHANGED <<arrived, completed>>

Workers == {[uid |-> u, born |-> b, state |-> st, ev |-> e] :
               u \in Uids, b \in 1..(MaxEvents + 1),
               st \in {"waiting", "processing"}, e \in 0..(MaxEvents + 1)}

NextQueue ==
    \/ \E uid \in Uids : QueueEvent(uid)
    \/ \E w \in Workers : WorkerTake(w)
    \/ \E w \in Workers : WorkerDone(w)
    \/ \E w \in Workers : WorkerIdle(w)

SpecQueue == InitQueueing /\ [][NextQueue]_vars

(***************************************************************************)
(* SpecSleep: a call of sleep_or_wait, for every `delays` and every moment *)
(* of the wakeup.                                                          *)
(***************************************************************************)
InitSleep ==
    /\ InitDocs
    /\ InitRunner
    /\ registry = <<>>
    /\ InitDiscovery({NoNamespace})
    /\ InitQueue
    /\ sl_delays \in DelaysArgs
    /\ sl_wake \in {None} \cup 0..MaxWake
    /\ sl_latency \in 0..MaxLatency
    /\ sl_outcome = NotCalled
    /\ InitThrottling(<<>>)
    /\ InitValues(NoneValue, NoneValue)
    /\ InitFetching("read_crd", UNSET)
    /\ InitUrls(NAMESPACES, AbsentArgs)

SleepOrWait ==
    /\ sl_outcome = NotCalled
    /\ sl_outcome' \in sleep_or_wait(sl_delays, sl_wake, sl_latency)
    /\ lastOp' = "sleep_or_wait"
    /\ UNCHANGED <<body, patch, now, raised, ops, runnerVars, discVars, queueVars,
                   sl_delays, sl_wake, sl_latency, throttleVars, diffVars,
                   urlVars, fetchVars>>

NextSleep == SleepOrWait

SpecSleep == InitSleep /\ [][NextSleep]_vars

(***************************************************************************)
(* SpecThrottle: passes through `async with throttled(...)`, whose body    *)
(* exits cleanly, with an error of interest, or with another error.        *)
(***************************************************************************)
InitThrottle ==
    /\ InitDocs
    /\ InitRunner
    /\ registry = <<>>
    /\ InitDiscovery({NoNamespace})
    /\ InitQueue
    /\ InitSleeping
    /\ \E delays \in ThrottleDelays : InitThrottling(delays)
    /\ InitValues(NoneValue, NoneValue)
    /\ InitFetching("read_crd", UNSET)
    /\ InitUrls(NAMESPACES, AbsentArgs)

ThrottleStep(op) ==
    /\ lastOp' = op
    /\ UNCHANGED <<body, patch, ops, runnerVars, discVars, queueVars, th_delays,
                   diffVars, urlVars, fetchVars>>

\* A sleep of `throttled`: sleep_or_wait(remaining_time, wakeup=wakeup), with
\* the wakeup set `wake` seconds from now (None: never).
ThrottleSleep(wake, latency, out) ==
    /\ out \in sleep_for(throttler.active_until - now, wake, latency)
    /\ now + out.slept <= MaxThrottleTime
    /\ now' = now + out.slept
    /\ sl_delays' = [collection |-> FALSE, items |-> <<throttler.active_until - now>>]
    /\ sl_wake' = wake
    /\ sl_latency' = latency
    /\ sl_outcome' = out

NoThrottleSleep ==
    /\ sl_outcome' = NotCalled
    /\ UNCHANGED <<now, sl_delays, sl_wake, sl_latency, throttler>>

\* The entry: the 1st sleep if the throttling is active, then the advice.
ThrottledEnter(wake, latency) ==
    /\ th_pc = "idle"
    /\ IF throttler.active_until /= None
       THEN \E out \in sleep_for(throttler.active_until - now, wake, latency) :
                /\ ThrottleSleep(wake, latency, out)
                /\ throttler' = after_first_sleep(throttler, out.result)
       ELSE wake = None /\ latency = 0 /\ NoThrottleSleep
    /\ th_should_run' = (throttler'.active_until = None)
    /\ th_pc' = "body"
    /\ raised' = FALSE
    /\ ThrottleStep("enter")
    /\ UNCHANGED th_errors

\* The body exits cleanly.
BodyOk ==
    /\ th_pc = "body"
    /\ throttler' = IF th_should_run THEN throttle_reset(throttler) ELSE throttler
    /\ th_errors' = IF th_should_run THEN 0 ELSE th_errors
    /\ th_pc' = "exit"
    /\ raised' = FALSE
    /\ ThrottleStep("ok")
    /\ UNCHANGED <<now, sleepVars, th_should_run>>

\* The body raises an error of the types of interest: it is captured if the
\* body was advised to run, and escalated if not.
BodyError ==
    /\ th_pc = "body"
    /\ th_errors < MaxErrors
    /\ IF th_should_run
       THEN /\ throttler' = throttle_error(throttler, th_delays, now)
            /\ th_errors' = th_errors + 1
            /\ th_pc' = "exit"
            /\ raised' = FALSE
       ELSE /\ th_pc' = "idle"
            /\ raised' = TRUE
            /\ UNCHANGED <<throttler, th_errors>>
    /\ ThrottleStep("error")
    /\ UNCHANGED <<now, sleepVars, th_should_run>>

\* An error of another type captured as the errors of interest are.
BodyOtherError_captured ==
    /\ th_pc = "body"
    /\ throttler' = throttle_error(throttler, th_delays, now)
    /\ th_pc' = "exit"
    /\ raised' = FALSE
    /\ ThrottleStep("other_error")
    /\ UNCHANGED <<now, sleepVars, th_should_run, th_errors>>

\* The body raises an error of another type: it is escalated.
BodyOtherError ==
    /\ th_pc = "body"
    /\ th_pc' = "idle"
    /\ raised' = TRUE
    /\ ThrottleStep("other_error")
    /\ UNCHANGED <<now, sleepVars, throttler, th_should_run, th_errors>>

\* The exit: the 2nd sleep, if the body ran and the throttling is active.
ThrottledExit(wake, latency) ==
    /\ th_pc = "exit"
    /\ IF throttler.active_until /= None /\ th_should_run
       THEN \E out \in sleep_for(throttler.active_until - now, wake, latency) :
                /\ ThrottleSleep(wake, latency, out)
                /\ throttler' = after_second_sleep(throttler, out.result)
       ELSE wake = None /\ latency = 0 /\ NoThrottleSleep
    /\ th_pc' = "idle"
    /\ ThrottleStep("exit")
    /\ UNCHANGED <<raised, th_should_run, th_errors>>

\* Time passes between two passes.
ThrottleTick ==
    /\ th_pc = "idle"
    /\ now < MaxThrottleTime
    /\ now' = now + 1
    /\ ThrottleStep("tick")
    /\ UNCHANGED <<raised, sleepVars, throttleVars>>

NextThrottle ==
    \/ \E wake \in {None} \cup 0..MaxWake, latency \in 0..MaxLatency :
          ThrottledEnter(wake, latency)
    \/ BodyOk
    \/ BodyError
    \/ BodyOtherError
    \/ \E wake \in {None} \cup 0..MaxWake, latency \in 0..MaxLatency :
          ThrottledExit(wake, latency)
    \/ ThrottleTick

SpecThrottle == InitThrottle /\ [][NextThrottle]_vars

(***************************************************************************)
(* SpecDiff: the diff of any two values, then reduced to any field.        *)
(***************************************************************************)
InitDiff ==
    /\ InitDocs
    /\ InitRunner
    /\ registry = <<>>
    /\ InitDiscovery({NoNamespace})
    /\ InitQueue
    /\ InitSleeping
    /\ InitThrottling(<<>>)
    /\ \E a \in DiffValues, b \in DiffValues : InitValues(a, b)
    /\ InitFetching("read_crd", UNSET)
    /\ InitUrls(NAMESPACES, AbsentArgs)

DiffStep(op) ==
    /\ lastOp' = op
    /\ UNCHANGED <<body, patch, now, raised, ops, runnerVars, discVars, queueVars,
                   sleepVars, throttleVars, df_a, df_b, urlVars, fetchVars>>

\* d = diff(a, b)
DiffBuild ==
    /\ df_pc = "values"
    /\ df_diff' = diff(df_a, df_b)
    /\ df_pc' = "diffed"
    /\ DiffStep("diff")
    /\ UNCHANGED <<df_path, df_reduced, df_field, df_selected>>

\* reduce(d, path), that is d[path]
DiffReduce(path) ==
    /\ df_pc = "diffed"
    /\ df_path' = path
    /\ df_reduced' = reduce_iter(df_diff, path)
    /\ df_pc' = "reduced"
    /\ DiffStep("reduce")
    /\ UNCHANGED <<df_diff, df_field, df_selected>>

\* d[path][field]: a selection from the reduced diff.
DiffSelect(field) ==
    /\ df_pc = "reduced"
    /\ df_field' = field
    /\ df_selected' = getitem(getitem(Selected(Yielded(df_diff), <<>>), df_path), field)
    /\ df_pc' = "selected"
    /\ DiffStep("select")
    /\ UNCHANGED <<df_diff, df_path, df_reduced>>

NextDiff ==
    \/ DiffBuild
    \/ \E path \in FieldPaths : DiffReduce(path)
    \/ \E field \in FieldPaths : DiffSelect(field)

SpecDiff == InitDiff /\ [][NextDiff]_vars

(***************************************************************************)
(* SpecUrl: the URLs of any resource, for any arguments.                   *)
(***************************************************************************)
InitUrl ==
    /\ InitDocs
    /\ InitRunner
    /\ registry = <<>>
    /\ InitDiscovery({NoNamespace})
    /\ InitQueue
    /\ InitSleeping
    /\ InitThrottling(<<>>)
    /\ InitValues(NoneValue, NoneValue)
    /\ InitFetching("read_crd", UNSET)
    /\ \E resource \in UrlResources, args \in UrlArgs : InitUrls(resource, args)

UrlStep(op) ==
    /\ url_called = "none"
    /\ url_called' = op
    /\ lastOp' = op
    /\ UNCHANGED <<body, patch, now, raised, ops, runnerVars, discVars, queueVars,
                   sleepVars, throttleVars, diffVars, url_resource, url_args,
                   fetchVars>>

GetUrl ==
    /\ url_result' = get_url(url_resource, url_args)
    /\ UrlStep("get_url")

GetVersionUrl ==
    /\ url_result' = get_version_url(url_resource, url_args)
    /\ UrlStep("get_version_url")

NextUrl == GetUrl \/ GetVersionUrl

SpecUrl == InitUrl /\ [][NextUrl]_vars

(***************************************************************************)
(* SpecFetch: one call of read_crd or read_obj: the request, then any      *)
(* response of the API.                                                    *)
(***************************************************************************)
InitFetch ==
    /\ InitDocs
    /\ InitRunner
    /\ registry = <<>>
    /\ InitDiscovery({NoNamespace})
    /\ InitQueue
    /\ InitSleeping
    /\ InitThrottling(<<>>)
    /\ InitValues(NoneValue, NoneValue)
    /\ \E resource \in UrlResources, args \in UrlArgs :
          /\ args.subresource = Absent /\ args.params = "" /\ args.server \in Servers
          /\ InitUrls(resource, args)
    /\ \E fn \in {"read_crd", "read_obj"}, default \in Defaults : InitFetching(fn, default)

FetchStep(op) ==
    /\ lastOp' = op
    /\ UNCHANGED <<body, patch, now, raised, ops, runnerVars, discVars, queueVars,
                   sleepVars, throttleVars, diffVars, url_resource, url_args,
                   url_called, ft_fn, ft_default>>

\* context.session.get(url=...)
FetchRequest(is_namespaced) ==
    /\ ft_pc = "called"
    /\ ft_fn = "read_crd" => ~is_namespaced
    /\ url_result' = IF ft_fn = "read_crd"
                     THEN read_crd_url(url_resource, url_args.server)
                     ELSE read_obj_url(url_resource, url_args.server, url_args.namespace,
                                       url_args.name, is_namespaced)
    /\ ft_pc' = "requested"
    /\ FetchStep("request")
    /\ UNCHANGED <<ft_status, ft_result>>

\* The API answers; the call returns or raises.
FetchResponse(status) ==
    /\ ft_pc = "requested"
    /\ ft_status' = status
    /\ ft_result' = IF ft_fn = "read_crd"
                    THEN read_crd(ft_default, status)
                    ELSE read_obj(ft_default, status)
    /\ ft_pc' = "done"
    /\ FetchStep("response")
    /\ UNCHANGED url_result

NextFetch ==
    \/ \E is_namespaced \in BOOLEAN : FetchRequest(is_namespaced)
    \/ \E status \in Statuses : FetchResponse(status)

SpecFetch == InitFetch /\ [][NextFetch]_vars

(***************************************************************************)
(* Properties of the runner and the progress store.                        *)
(***************************************************************************)
HandlersOf(script) ==
    {registry[i].id : i \in {j \in 1..Len(registry) : registry[j].script = script}}

HasSuccess(doc, h) == Truthy(Get(RecordOf(doc, h), "success", None))
HasFailure(doc, h) == Truthy(Get(RecordOf(doc, h), "failure", None))

\* A step that persists a purge of the progress.
PurgePersisted ==
    \/ lastOp' = "invalidate"
    \/ lastOp' = "end" /\ AllSucceeded(Merged)

\* C1: once the record of a handler on the object holds success or failure, the
\* handler reads as finished after every later step and no step invokes it
\* again, until a purge of the progress is persisted.
C1_ProgressMonotonic ==
    [][\A h \in HandlerIds :
          (HasSuccess(body, h) \/ HasFailure(body, h)) /\ ~PurgePersisted
              => /\ is_finished(body, h)
                 /\ is_finished(body', h)
                 /\ calls'[h] = calls[h]]_vars

\* C1 witness: a later pass has come to a handler recorded as finished on the
\* object and has skipped it.
C1_Witness ==
    /\ lastOp = "skip"
    /\ idx > 1
    /\ is_finished(body, registry[idx - 1].id)
    /\ calls[registry[idx - 1].id] > 0

C3_AtMostOneOutcome ==
    \A h \in HandlerIds : ~(HasSuccess(Merged, h) /\ HasFailure(Merged, h))

\* C3 amended: an operation of the store sets at most one of success and
\* failure and clears neither, so both come to be set only by store_failure
\* on a record that holds success or store_success on one that holds failure.
C3_OneOutcomePerWrite ==
    [][\A h \in HandlerIds :
          (HasSuccess(Merged, h) /\ HasFailure(Merged, h))'
              => \/ HasSuccess(Merged, h) /\ HasFailure(Merged, h)
                 \/ lastOp' = "store_failure" /\ HasSuccess(Merged, h)
                 \/ lastOp' = "store_success" /\ HasFailure(Merged, h)]_vars

\* C3 witness: a failure is stored for a handler, and only the failure is set.
C3_Witness ==
    \E h \in HandlerIds :
        lastOp = "store_failure" /\ ~raised
        /\ HasFailure(Merged, h) /\ ~HasSuccess(Merged, h)

StartTimePrefersPatch ==
    \A h \in HandlerIds :
        LET new == RecordOf(patch, h)
            old == RecordOf(body, h)
        IN  get_start_time(body, patch, h) =
                IF "started" \in DOMAIN new THEN fromisoformat(new["started"])
                ELSE IF "started" \in DOMAIN old THEN fromisoformat(old["started"])
                ELSE None

\* The reads of the body see what the patch held, once the patch is persisted.
PersistShowsWrites ==
    lastOp' = "persist" =>
        \A h \in HandlerIds :
            LET rec == RecordOf(patch, h)
            IN  /\ h \in DOMAIN ProgressOf(patch) => is_started(body', h)
                /\ "retries" \in DOMAIN rec => get_retry_count(body', h) = rec["retries"]
                /\ "success" \in DOMAIN rec => is_finished(body', h)
                /\ "failure" \in DOMAIN rec => is_finished(body', h)

DigestMismatch ==
    get_stored_digest(body) /= None /\ get_stored_digest(body) /= Hash(essence)

C5_DigestInvalidation ==
    [][/\ (phase = "idle" /\ DigestMismatch) =>
             /\ phase' = "idle"
             /\ calls'[registry[1].id] <= calls[registry[1].id]
             /\ lastOp' = "invalidate" =>
                   /\ \A h \in HandlerIds :
                         /\ ~is_started(body', h)
                         /\ ~is_finished(body', h)
                         /\ get_retry_count(body', h) = 0
                   /\ get_stored_digest(body') = None
       /\ lastOp' = "invoke" => get_stored_digest(Merged) = Hash(seen)]_vars

\* C5 witness: a pass has just invalidated the progress of a cycle in flight,
\* dropping the record of a handler that was started and not finished.
C5_Witness ==
    /\ lastOp = "invalidate"
    /\ dropped /= {}
    /\ \A h \in dropped : ~is_started(body, h)

\* C6 as claimed: no operation of the store changes the body.
C6_BodyReadOnly ==
    [][lastOp' \notin {"persist"} => body' = body]_vars

\* C7: a handler that raises PermanentError is invoked once; its record then
\* holds failure, the message of the error and the instant it stopped, no
\* success and no delay, and on the object it reads as finished, not sleeping.
C7_PermanentError ==
    \A h \in HandlersOf("permanent") :
        /\ calls[h] <= 1
        /\ calls[h] = 1 =>
              LET rec == RecordOf(Merged, h)
              IN  /\ Get(rec, "failure", None) = True
                  /\ Get(rec, "message", None) = 7
                  /\ Get(rec, "stopped", None) /= None
                  /\ "success" \notin DOMAIN rec
                  /\ "delayed" \notin DOMAIN rec
                  /\ phase = "idle" => /\ is_finished(body, h)
                                       /\ ~is_sleeping(body, h, now)

\* C7 witness: a later pass skips the handler that failed permanently.
C7_Witness ==
    \E h \in HandlersOf("permanent") :
        /\ calls[h] = 1
        /\ lastOp = "skip"
        /\ registry[idx - 1].id = h

\* C8: a handler that always raises is, in errors mode TEMPORARY, invoked at
\* most `retries` times, each failed attempt short of the limit leaving a
\* delay and no failure, and the last one a failure; in errors mode PERMANENT
\* it is invoked once and recorded as failed.
C8_BoundedRetries ==
    /\ \A h \in HandlersOf("raiseTemporary") :
          LET rec == RecordOf(Merged, h)
          IN  /\ calls[h] <= RetriesLimit
              /\ (calls[h] > 0 /\ calls[h] < RetriesLimit) =>
                    /\ ~HasFailure(Merged, h)
                    /\ Get(rec, "retries", 0) = calls[h]
                    /\ Get(rec, "delayed", None) /= None
              /\ calls[h] = RetriesLimit => HasFailure(Merged, h)
    /\ \A h \in HandlersOf("raisePermanent") :
          /\ calls[h] <= 1
          /\ calls[h] = 1 => HasFailure(Merged, h)

\* C8 witness: the handler was invoked `retries` times and is recorded as failed.
C8_Witness ==
    \E h \in HandlersOf("raiseTemporary") :
        calls[h] = RetriesLimit /\ is_finished(body, h)

\* C9: freeze correctness.  While a peer of strictly higher priority is live
\* (now - last_seen < lifetime), the freeze toggle of this operator is on and
\* no handler of this operator has run for any watched dimension, the
\* dimensions whose watchers discovery spawned at runtime included.
C9_FreezeCorrectness ==
    /\ HigherPeerLive(peer, now) => freeze_mode
    /\ frozen_runs = 0

\* C10: per-object serialization.  Of two events of the same object (UID), the
\* handlers of the second are invoked only after the processing of the first
\* is completed: no two workers process events of one object at a time, and
\* the event in processing is later than every completed one of its object.
\* Events of different objects are free to interleave.
C10_PerObjectSerialization ==
    \A w1 \in workers :
        w1.state = "processing" =>
            /\ w1.ev > completed[w1.uid]
            /\ \A w2 \in workers :
                  (w2.uid = w1.uid /\ w2.state = "processing") => w2 = w1

\* C10 witness: the second event of an object is in processing after its
\* first was completed, while an event of another object is in processing.
C10_Witness ==
    \E w1 \in workers, w2 \in workers :
        /\ w1.uid /= w2.uid
        /\ w1.state = "processing" /\ w2.state = "processing"
        /\ completed[w1.uid] >= 1
        /\ w1.ev > completed[w1.uid]

\* No call of adjust_watchers is in flight.
NoCallInFlight == \A c \in Callers : calls_pc[c] /= "joining"

\* The step is the return of a call of adjust_watchers made by c.
Returns(c) ==
    /\ calls_pc'[c] = "idle"
    /\ lastOp' = c \/ (lastOp' = "joined" /\ calls_pc[c] = "joining")

\* The map of watchers has a running watcher for every pair of a namespace and
\* a resource of the dimensions, and nothing else.
WatchersMatchDimensions ==
    /\ DOMAIN watchers = Product(dimensions)
    /\ \A k \in DOMAIN watchers :
          /\ tasks[watchers[k]].kind = "dimension"
          /\ tasks[watchers[k]].key = k
          /\ tasks[watchers[k]].status = "running"

\* A key leaves the map of watchers only when its watcher, cancelled before,
\* has completed.
RemovedOnlyWhenDone ==
    \A k \in DOMAIN watchers :
        k \notin DOMAIN watchers' => tasks[watchers[k]].status = "done"

\* C11: when a call of adjust_watchers returns, no other call having been in
\* flight, the map of watchers holds exactly the pairs of namespaces x
\* resources, each with a running watcher; a watcher whose namespace or
\* resource left the dimensions is cancelled and awaited, and only then
\* removed from the map.
C11_WatchersMatchDimensions ==
    [][/\ \A c \in Callers :
             (Returns(c) /\ ~overlapped'[c] /\ NoCallInFlight')
                 => WatchersMatchDimensions'
       /\ (\A c \in Callers : ~overlapped[c]) => RemovedOnlyWhenDone]_vars

\* C11 witness: a call has returned after the join of a cancelled watcher,
\* which left the map, while another watcher stays in it.
C11_Witness ==
    /\ lastOp = "joined"
    /\ NoCallInFlight
    /\ \A c \in Callers : ~overlapped[c]
    /\ watchers /= EmptyMap
    /\ \E i \in 1..Len(tasks) : tasks[i].kind = "dimension" /\ tasks[i].status = "done"

\* C12: the cancelled discovery task cancels every watcher, meta-watcher or
\* watcher of a dimension, that exists at that moment; it ends (re-raises)
\* only when all of them have completed, so that no watcher task is running
\* once discovery has ended; and no watcher is spawned after the cancellation.
C12_CancellationStopsWatchers ==
    /\ [](discovery_pc = "ended" =>
            \A i \in 1..Len(tasks) : tasks[i].status = "done")
    /\ [][(discovery_pc = "waiting" /\ discovery_pc' = "stopping") =>
            \A i \in 1..Len(tasks) :
                tasks[i].status = "running" => tasks'[i].status = "cancelled"]_vars
    /\ [][discovery_pc /= "waiting" => Len(tasks') = Len(tasks)]_vars

\* The delays passed that are numbers, and those of them that are positive.
GivenDelays == {sl_delays.items[i] : i \in 1..Len(sl_delays.items)} \ {None}
PositiveDelays == {d \in GivenDelays : d > 0}

\* No wakeup comes before the sleep of m seconds is over.
NoWakeupWithin(m) == sl_wake = None \/ sl_wake > m

\* sleep_or_wait sleeps up to the bound m, the whole of it when no wakeup
\* comes, and up to the wakeup when one is signalled before.
SleepsUpTo(m) ==
    /\ sl_outcome.slept <= m
    /\ NoWakeupWithin(m) => sl_outcome.slept = m
    /\ (sl_wake /= None /\ sl_wake < m) => sl_outcome.slept = sl_wake

\* C16 as claimed: the sleep is bounded by the minimum of the positive delays
\* (the non-positive ones do not count), and ends early on a wakeup.
C16_SleepsMinimumPositive ==
    sl_outcome /= NotCalled =>
        IF PositiveDelays = {} THEN sl_outcome.slept = 0
        ELSE SleepsUpTo(Min(PositiveDelays))

\* C16 amended: the sleep is bounded by the minimum of the delays that are not
\* None, whatever their sign: there is no sleep if that minimum is zero or
\* less (or there is no delay), even when other delays are positive; else the
\* sleep lasts up to that minimum, and ends early on a wakeup.
C16_SleepsMinimum ==
    sl_outcome /= NotCalled =>
        IF GivenDelays = {} \/ (\E d \in GivenDelays : d <= 0)
        THEN sl_outcome.slept = 0
        ELSE SleepsUpTo(Min(GivenDelays))

\* C16 witness: of a None and two positive delays the smaller was slept, no
\* wakeup having come.
C16_Witness ==
    /\ sl_outcome /= NotCalled
    /\ Len(sl_delays.items) = 2
    /\ PositiveDelays /= {} /\ GivenDelays = PositiveDelays
    /\ sl_wake = None
    /\ sl_outcome.slept = Min(PositiveDelays)

\* C17: sleep_or_wait returns None when the sleep reached its delay with no
\* wakeup, and when there was nothing to sleep for (no delay, only None, or a
\* minimum of zero or less), in which case it did not sleep; interrupted by
\* the wakeup it returns the remainder r, 0 <= r <= the minimal delay.
C17_SleepResult ==
    sl_outcome /= NotCalled =>
        LET m == IF GivenDelays = {} THEN 0 ELSE Min(GivenDelays)
        IN  /\ m <= 0 => (sl_outcome.result = None /\ sl_outcome.slept = 0)
            /\ (m > 0 /\ NoWakeupWithin(m)) => sl_outcome.result = None
            /\ (m > 0 /\ sl_wake /= None /\ sl_wake < m) => sl_outcome.how = "event"
            /\ sl_outcome.how = "event" =>
                  /\ sl_outcome.result /= None
                  /\ 0 <= sl_outcome.result
                  /\ sl_outcome.result <= m
                  /\ sl_outcome.result = Max({0, m - sl_wake - sl_latency})
            /\ sl_outcome.result /= None => sl_outcome.how = "event"

\* C17 witness: the wakeup interrupted a sleep of two seconds after one.
C17_Witness ==
    /\ sl_outcome.how = "event"
    /\ sl_outcome.slept = 1
    /\ sl_outcome.result = 1

\* The step in which the body, advised to run, exits with an error of interest.
CapturedError == th_pc = "body" /\ th_should_run /\ lastOp' = "error"

\* C13: the error of interest of a body advised to run is captured, not
\* propagated; the throttler takes the next delay of the configured sequence
\* (the n-th error in a row takes the n-th delay, and the last delay again
\* once the sequence is exhausted), records it as last_used_delay, sets
\* active_until to now + delay, and the 2nd sleep lasts that long unless the
\* wakeup interrupts it.
C13_ThrottleOnError ==
    /\ [][(CapturedError /\ th_delays /= <<>>) =>
            LET n == th_errors'
                delay == th_delays[IF n <= Len(th_delays) THEN n ELSE Len(th_delays)]
            IN  /\ ~raised'
                /\ th_pc' = "exit"
                /\ n = th_errors + 1
                /\ throttler'.source_set
                /\ throttler'.last_used_delay = delay
                /\ throttler'.active_until = now + delay]_vars
    /\ [][(th_pc = "exit" /\ th_should_run /\ throttler.active_until /= None
              /\ lastOp' = "exit") =>
            /\ sl_outcome' /= NotCalled
            /\ sl_outcome'.slept <= throttler.last_used_delay
            /\ sl_wake' = None =>
                  (sl_outcome'.slept = throttler.last_used_delay
                      /\ throttler'.active_until = None)]_vars

\* C13 witness: the third error in a row has taken the last delay of a
\* sequence of two again.
C13_Witness ==
    /\ lastOp = "error" /\ ~raised
    /\ th_errors = 3
    /\ Len(th_delays) = 2
    /\ throttler.last_used_delay = th_delays[2]

\* C14: the clean exit of a body advised to run resets the throttler:
\* source_of_delays and last_used_delay are cleared and active_until is unset,
\* and the next error takes the first delay configured.
C14_ResetOnCleanExit ==
    /\ [][(th_pc = "body" /\ th_should_run /\ lastOp' = "ok") =>
            throttler' = NewThrottler]_vars
    /\ [][(CapturedError /\ th_errors = 0 /\ th_delays /= <<>>) =>
            throttler'.last_used_delay = th_delays[1]]_vars

\* C14 witness: the throttling over (the 1st sleep reached its time), the
\* body has run and exited cleanly, and the throttler is as new.
C14_Witness ==
    /\ lastOp = "ok"
    /\ th_should_run
    /\ sl_outcome.how = "timeout"
    /\ th_errors = 0
    /\ throttler = NewThrottler

\* C15: on entry, with active_until set, the throttler sleeps for the time
\* remaining, interruptibly; the body is advised to run exactly when
\* active_until is unset after that; a sleep interrupted by the wakeup leaves
\* active_until as it was, the advice being not to run.
C15_AdviceOnEntry ==
    [][(th_pc = "idle" /\ lastOp' = "enter") =>
          /\ th_should_run' = (throttler'.active_until = None)
          /\ IF throttler.active_until = None
             THEN sl_outcome' = NotCalled /\ th_should_run' /\ now' = now
             ELSE LET remaining == throttler.active_until - now
                  IN  /\ sl_outcome' /= NotCalled
                      /\ now' - now <= Max({0, remaining})
                      /\ sl_outcome'.how = "event" =>
                            (~th_should_run' /\ throttler' = throttler)
                      /\ sl_outcome'.how /= "event" =>
                            (th_should_run' /\ now' = now + Max({0, remaining}))]_vars

\* C15 witness: the wakeup has interrupted the 1st sleep: not to run.
C15_Witness ==
    /\ lastOp = "enter"
    /\ sl_outcome.how = "event"
    /\ ~th_should_run
    /\ throttler.active_until /= None

(***************************************************************************)
(* The diffs.                                                              *)
(***************************************************************************)
Diffed == df_pc /= "values"
BothDicts == type_of(df_a) = "dict" /\ type_of(df_b) = "dict"
HoldsNone(v) == \E n \in v : n[2][1] = "NoneType"

\* Applying a diff to a value: an added or changed field is set to the new
\* value, a removed field is deleted.
apply_item(v, i) ==
    {n \in v : ~IsPrefix(i.field, n[1])}
        \cup IF i.operation = "remove"
             THEN {}
             ELSE {<<i.field \o n[1], n[2]>> : n \in i.new}

RECURSIVE apply(_, _)
apply(d, v) == IF d = <<>> THEN v ELSE apply(Tail(d), apply_item(v, Head(d)))

\* The value without its fields that hold None, at any depth.
WithoutNones(v) ==
    {n \in v : \A l \in 1..Len(n[1]) :
                   <<SubSeq(n[1], 1, l), <<"NoneType", 0>>>> \notin v}

\* C18, as stated: for any two dicts a and b, those holding None values and
\* nested dicts included, applying the items of diff(a, b) to a yields b, and
\* diff(a, b) is empty only when a equals b.
C18_RoundTripWithNones ==
    (Diffed /\ BothDicts)
        => /\ apply(df_diff, df_a) = df_b
           /\ df_diff = <<>> => df_a = df_b

\* C18, amended: for any two dicts a and b, applying the items of diff(a, b)
\* to a yields b up to the fields that hold None (such a field counts as an
\* absent one), and diff(a, b) is empty only when a and b are equal up to
\* such fields; for dicts that hold no None it yields b itself, and the diff
\* is empty only when a equals b.
C18_RoundTrip ==
    (Diffed /\ BothDicts)
        => /\ WithoutNones(apply(df_diff, df_a)) = WithoutNones(df_b)
           /\ df_diff = <<>> => WithoutNones(df_a) = WithoutNones(df_b)
           /\ (~HoldsNone(df_a) /\ ~HoldsNone(df_b))
                  => /\ apply(df_diff, df_a) = df_b
                     /\ df_diff = <<>> => df_a = df_b

\* Two dicts with no None, differing by an added field and by a field removed
\* from a nested dict, have been diffed.
C18_Witness ==
    /\ Diffed /\ BothDicts
    /\ ~HoldsNone(df_a) /\ ~HoldsNone(df_b)
    /\ \E n \in 1..Len(df_diff) : df_diff[n].operation = "add"
    /\ \E n \in 1..Len(df_diff) :
           df_diff[n].operation = "remove" /\ Len(df_diff[n].field) = 2

SeqToBag(s) == [i \in {s[n] : n \in 1..Len(s)} |-> Cardinality({n \in 1..Len(s) : s[n] = i})]
Resolvable == resolve(df_a, df_path) /= TypeError /\ resolve(df_b, df_path) /= TypeError

\* C19: for any dicts a, b and any field path p that resolves in both,
\* reduce(diff(a, b), p) holds the same items, up to their order, as
\* diff(resolve(a, p), resolve(b, p)), also when a parent of p was added or
\* removed as a whole; and reduce raises only where resolve does.
C19_ReduceCoherence ==
    (df_pc = "reduced" /\ BothDicts)
        => /\ Resolvable =>
                 /\ ~df_reduced.raised
                 /\ SeqToBag(df_reduced.items)
                        = SeqToBag(diff(resolve(df_a, df_path), resolve(df_b, df_path)))
           /\ df_reduced.raised => ~Resolvable

\* A dict was added as a whole, and the diff reduced to a field inside it.
C19_Witness ==
    /\ df_pc = "reduced" /\ BothDicts /\ Resolvable
    /\ Len(df_path) = 2
    /\ \E n \in 1..Len(df_diff) :
           /\ df_diff[n].operation = "add"
           /\ df_diff[n].field = SubSeq(df_path, 1, 1)
           /\ type_of(df_diff[n].new) = "dict"
    /\ df_reduced.items /= <<>>

\* C20: diff(x, x) is the empty diff for every value x: None, a scalar, a
\* list or a dict.
C20_EmptyDiff == (Diffed /\ df_a = df_b) => df_diff = <<>>

\* A value of each kind has been diffed with itself.
C20_Witness ==
    /\ Diffed /\ df_a = df_b /\ df_diff = <<>>
    /\ type_of(df_a) = "list"

ItemsOf(s) == {s[n] : n \in 1..Len(s)}
\* The items of diff(a, b) for the key k and the fields below it.
ItemsUnder(k) == {i \in ItemsOf(df_diff) : IsPrefix(<<k>>, i.field)}
Rerooted(items) ==
    {DiffItem(i.operation, Tail(i.field), i.old, i.new) : i \in items}
IntValue(n) == Leaf(<<"int", n>>)

\* What the reference definition gives for two values that are not both dicts.
AtRoot ==
    IF df_a = df_b THEN <<>>
    ELSE IF df_a = NoneValue THEN <<DiffItem("add", <<>>, df_a, df_b)>>
    ELSE IF df_b = NoneValue THEN <<DiffItem("remove", <<>>, df_a, df_b)>>
    ELSE <<DiffItem("change", <<>>, df_a, df_b)>>

\* The parts of the reference definition on which the claim and the code
\* agree: the values that are not both dicts, the common keys of two dicts,
\* no item for anything else, and the example of the spec.
ReferenceElsewhere ==
    /\ ~BothDicts => df_diff = AtRoot
    /\ BothDicts =>
          /\ \A k \in keys(df_a) \cap keys(df_b) :
                 Rerooted(ItemsUnder(k)) = ItemsOf(diff(item(df_a, k), item(df_b, k)))
          /\ \A i \in ItemsOf(df_diff) :
                 i.field /= <<>> /\ i.field[1] \in keys(df_a) \cup keys(df_b)
          /\ Cardinality(ItemsOf(df_diff)) = Len(df_diff)
    /\ (df_a = Dict([k \in {"x"} |-> IntValue(1)])
            /\ df_b = Dict([k \in {"x", "y"} |-> IF k = "x" THEN IntValue(1) ELSE IntValue(2)]))
          => df_diff = <<DiffItem("add", <<"y">>, NoneValue, IntValue(2))>>

\* C21, as stated: diff follows the reference definition for every input;
\* two dicts give one add (old None) per key only in b and one remove (new
\* None) per key only in a, whatever the value of the key.
C21_ReferenceAnyValue ==
    Diffed =>
        /\ ReferenceElsewhere
        /\ BothDicts =>
              /\ \A k \in keys(df_b) \ keys(df_a) :
                     ItemsUnder(k) = {DiffItem("add", <<k>>, NoneValue, item(df_b, k))}
              /\ \A k \in keys(df_a) \ keys(df_b) :
                     ItemsUnder(k) = {DiffItem("remove", <<k>>, item(df_a, k), NoneValue)}

\* C21, amended: diff follows the reference definition for every input,
\* except that two dicts give one add per key only in b, and one remove per
\* key only in a, only when the value of that key is not None: a key that
\* holds None on the one side and is absent on the other gives no item.
C21_Reference ==
    Diffed =>
        /\ ReferenceElsewhere
        /\ BothDicts =>
              /\ \A k \in keys(df_b) \ keys(df_a) :
                     ItemsUnder(k) = IF item(df_b, k) = NoneValue THEN {}
                                     ELSE {DiffItem("add", <<k>>, NoneValue, item(df_b, k))}
              /\ \A k \in keys(df_a) \ keys(df_b) :
                     ItemsUnder(k) = IF item(df_a, k) = NoneValue THEN {}
                                     ELSE {DiffItem("remove", <<k>>, item(df_a, k), NoneValue)}

\* Two dicts have been diffed: a key only in b, and a common key that holds
\* a dict on both sides with a changed field.
C21_Witness ==
    /\ Diffed /\ BothDicts
    /\ \E k \in keys(df_b) \ keys(df_a) : ItemsUnder(k) /= {}
    /\ \E k \in keys(df_a) \cap keys(df_b) :
           /\ type_of(item(df_a, k)) = "dict" /\ type_of(item(df_b, k)) = "dict"
           /\ \E i \in ItemsUnder(k) : i.operation = "change"

\* d[path + field], selected at once.
SelectedAtOnce == getitem(Selected(Yielded(df_diff), <<>>), df_path \o df_field)

\* C22: for the diff d of any two values and any fields p and q, d[p][q]
\* holds the same items as d[p + q] (and raises if that raises), its items
\* are relative to the selected field: the old and new of an item are the
\* values of a and b at p + q + the item's field; and its path is p + q.
C22_SelectionComposes ==
    df_pc = "selected" =>
        /\ df_selected.raised = SelectedAtOnce.raised
        /\ ~df_selected.raised =>
              /\ SeqToBag(df_selected.items) = SeqToBag(SelectedAtOnce.items)
              /\ df_selected.path = df_path \o df_field
              /\ df_selected.path = SelectedAtOnce.path
              /\ \A i \in ItemsOf(df_selected.items) :
                     /\ i.old = resolve(df_a, df_path \o df_field \o i.field)
                     /\ i.new = resolve(df_b, df_path \o df_field \o i.field)

\* An added dict was selected from in two steps, down to one of its fields.
C22_Witness ==
    /\ df_pc = "selected" /\ ~df_selected.raised
    /\ df_path /= <<>> /\ df_field /= <<>>
    /\ df_selected.items /= <<>>
    /\ \E i \in ItemsOf(df_diff) : i.operation = "add" /\ type_of(i.new) = "dict"

(***************************************************************************)
(* The URLs.                                                               *)
(***************************************************************************)
StartsWith(path, prefix) ==
    Len(prefix) <= Len(path) /\ SubSeq(path, 1, Len(prefix)) = prefix
CoreV1 == url_resource.group = "" /\ url_resource.version = "v1"
\* The parts of the path after the first n of them.
After(path, n) == SubSeq(path, n + 1, Len(path))

\* The rest of the claim, given the prefix of the path: the namespaces/{ns}
\* infix follows the prefix exactly when a namespace is given, and a
\* subresource without a name is rejected with an error, nothing else is.
UrlShape(prefix) ==
    /\ url_called = "get_version_url" =>
          ~url_result.raised /\ url_result.path = prefix
    /\ url_called = "get_url" =>
          /\ url_result.raised
                <=> (url_args.subresource /= Absent /\ url_args.name = Absent)
          /\ ~url_result.raised =>
                /\ StartsWith(url_result.path, prefix)
                /\ LET rest == After(url_result.path, Len(prefix))
                   IN  /\ url_args.namespace /= Absent
                            => StartsWith(rest, <<"namespaces", url_args.namespace,
                                                  url_resource.plural>>)
                       /\ url_args.namespace = Absent
                            => /\ StartsWith(rest, <<url_resource.plural>>)
                               /\ \A n \in 1..Len(url_result.path) :
                                      url_result.path[n] /= "namespaces"

\* C23, as stated: the URLs start with /api/v1 when the group is empty and
\* the version is v1, and with /apis/{group}/{version} in every other case;
\* the namespaces/{ns} infix appears exactly when a namespace is given; a
\* subresource without a name is rejected.
C23_UrlShapeAnyGroup ==
    url_called /= "none" =>
        UrlShape(IF CoreV1 THEN <<"/api", "v1">>
                 ELSE <<"/apis", url_resource.group, url_resource.version>>)

\* C23, amended: the URLs start with /api/v1 when the group is empty and the
\* version is v1, with /apis/{group}/{version} when the group is not empty,
\* and with /apis/{version} when the group is empty and the version is not
\* v1 (an empty part is left out of the path); the rest as stated.
C23_UrlShape ==
    url_called /= "none" =>
        UrlShape(IF CoreV1 THEN <<"/api", "v1">>
                 ELSE IF url_resource.group = "" THEN <<"/apis", url_resource.version>>
                 ELSE <<"/apis", url_resource.group, url_resource.version>>)

\* The URL of a subresource of a named object in a namespace, of a resource
\* of the core group, on a server.
C23_Witness ==
    /\ url_called = "get_url" /\ ~url_result.raised /\ CoreV1
    /\ url_args.namespace /= Absent /\ url_args.subresource /= Absent
    /\ url_result.server = "https://host"
    /\ url_result.path = <<"/api", "v1", "namespaces", "ns1", "kopfexamples",
                           "obj1", "status">>

AdjustRan(c) ==
    /\ Product(dimensions') \subseteq DOMAIN watchers'
    /\ calls_pc'[c] = "idle" => DOMAIN watchers' = Product(dimensions')

\* C25: on each namespace event, the namespace is in the dimensions
\* afterwards iff the event is not DELETED and the namespace was tracked
\* already or matches a configured namespace (or the operator is
\* cluster-wide); no other namespace and no resource is added or removed;
\* adjust_watchers runs after every such event.
C25_NamespaceEvents ==
    [][\A type \in EventTypes, namespace \in NamespaceNames :
          (lastOp' = "discover_namespace" /\ discover_namespace(type, namespace)) =>
              /\ namespace \in dimensions'.namespaces
                    <=> /\ type /= "DELETED"
                        /\ \/ namespace \in dimensions.namespaces
                           \/ NoNamespace \in namespaces
                           \/ \E pattern \in namespaces : fnmatch(namespace, pattern)
              /\ dimensions'.namespaces \ {namespace} = dimensions.namespaces \ {namespace}
              /\ dimensions'.resources = dimensions.resources
              /\ AdjustRan("discover_namespace")]_vars

\* A namespace that matches the configured glob was added while a resource
\* was known: its watcher was spawned; the other namespace is not tracked.
C25_Witness ==
    /\ lastOp = "discover_namespace"
    /\ namespaces = {"ns1"}
    /\ dimensions.namespaces = {"ns1"}
    /\ DOMAIN watchers /= {}

\* C26: on each CRD event whose resource (its group, first version and
\* plural) matches the glob of a registered handler, the resource is out of
\* the dimensions afterwards if the event is DELETED and in them otherwise,
\* nothing else of the dimensions changes, and adjust_watchers runs; when no
\* registered handler matches, the dimensions and the watchers are unchanged.
C26_ResourceEvents ==
    [][\A type \in EventTypes, crd \in CRDs :
          (lastOp' \in {"discover_resource", "ignored"} /\ discover_resource(type, crd)) =>
              LET resource == Resource(crd.group, crd.versions[1], crd.plural)
              IN  IF has_handlers(resource)
                  THEN /\ resource \in dimensions'.resources <=> type /= "DELETED"
                       /\ dimensions'.resources \ {resource}
                              = dimensions.resources \ {resource}
                       /\ dimensions'.namespaces = dimensions.namespaces
                       /\ AdjustRan("discover_resource")
                  ELSE UNCHANGED <<dimensions, watchers, tasks>>]_vars

\* A CRD with handlers was deleted after it had been added: its resource is
\* out of the dimensions, and its watcher is being stopped.
C26_Witness ==
    /\ lastOp = "discover_resource"
    /\ dimensions.resources = {}
    /\ calls_pc["discover_resource"] = "joining"

\* The configured namespaces known in advance: the names that are no globs,
\* and None for the whole cluster.
KnownInAdvance == namespaces \cap (NamespaceNames \cup {NoNamespace})

\* C27: the dimensions are seeded from the configuration at the start: before
\* any event of a meta-watcher is processed, the configured namespaces known
\* in advance are in dimensions.namespaces, and every dimension known then
\* has its watcher, spawned by the initial call of adjust_watchers.
C27_SeededFromConfiguration ==
    lastOp = "none" =>
        /\ KnownInAdvance \subseteq dimensions.namespaces
        /\ Product(dimensions) \subseteq DOMAIN watchers

\* The fields store_success writes into the handler's record.
SuccessFields == {"stopped", "success", "retries", "message"}

\* The results under status.<h> in a document.
ResultsOf(doc, h) == Get(doc.results, h, EmptyMap)

\* C28: a store_success that returns leaves, in the handler's record of the
\* patch, stopped = the current time, success = true, message = null and
\* retries = the retries of the body + 1, the record's other fields and the
\* other handlers' records being as they were; with a result, every key of
\* the result is set under status.<handler id> of the patch and the keys
\* pending there that the result does not name are kept; with no result the
\* results of the patch are as they were.
C28_StoreSuccess ==
    [][\A h \in HandlerIds, result \in Results \cup MoreResults \cup {NoResult} :
          (lastOp' = "store_success" /\ StoreSuccess(h, result) /\ ~raised') =>
              LET record == RecordOf(patch', h)
                  before == RecordOf(patch, h)
              IN  /\ patch'.progressKey = "map"
                  /\ DOMAIN record = DOMAIN before \cup SuccessFields
                  /\ record["stopped"] = isoformat(now)
                  /\ record["success"] = True
                  /\ record["message"] = None
                  /\ record["retries"] = get_retry_count(body, h) + 1
                  /\ \A k \in DOMAIN before \ SuccessFields : record[k] = before[k]
                  /\ \A g \in HandlerIds \ {h} :
                        /\ RecordOf(patch', g) = RecordOf(patch, g)
                        /\ ResultsOf(patch', g) = ResultsOf(patch, g)
                  /\ IF result = NoResult
                     THEN patch'.results = patch.results
                     ELSE /\ DOMAIN ResultsOf(patch', h) =
                                 DOMAIN ResultsOf(patch, h) \cup DOMAIN result
                          /\ \A k \in DOMAIN result :
                                 ResultsOf(patch', h)[k] = result[k]
                          /\ \A k \in DOMAIN ResultsOf(patch, h) \ DOMAIN result :
                                 ResultsOf(patch', h)[k] = ResultsOf(patch, h)[k]]_vars

\* A store_success returned with a result, and status.<handler id> of the
\* patch holds a key of an earlier result next to those of the last one.
C28_Witness ==
    /\ lastOp = "store_success" /\ ~raised
    /\ \E h \in HandlerIds :
          /\ DOMAIN ResultsOf(patch, h) = {"ok", "count"}
          /\ RecordOf(patch, h)["success"] = True
          /\ "started" \in DOMAIN RecordOf(patch, h)

\* No handler is started or finished in the document and every retry count is 0.
FromScratch(doc) ==
    \A h \in HandlerIds :
        /\ ~is_started(doc, h)
        /\ ~is_finished(doc, h)
        /\ get_retry_count(doc, h) = 0

\* C29: purge_progress leaves status.kopf.progress null and status.kopf.digest
\* the given digest (null when none is given) in the patch, and the object
\* with that patch merged into it reads, for every handler, as not started,
\* not finished and never retried; so does the body after the request that
\* persists a patch holding the null.
C29_PurgeStartsFromScratch ==
    [][/\ \A digest \in Digests :
            (lastOp' = "purge_progress" /\ PurgeProgress(digest)) =>
                /\ ProgressIsNull(patch')
                /\ patch'.hasDigest /\ patch'.digest = digest
                /\ FromScratch(MergePatch(body', patch'))
       /\ (lastOp' = "persist" /\ Persist /\ ProgressIsNull(patch)) =>
                FromScratch(body')]_vars

\* purge_progress has acted on the patch of an object whose body holds the
\* record of a finished handler with a retry counted.
C29_Witness ==
    /\ lastOp = "purge_progress"
    /\ ProgressIsNull(patch) /\ patch.digest = 11
    /\ \E h \in HandlerIds :
          /\ is_started(body, h)
          /\ is_finished(body, h)
          /\ get_retry_count(body, h) = 1

\* The watchers of the dimensions, spawned by adjust_watchers.
DimensionWatchers == {i \in 1..Len(tasks) : tasks[i].kind = "dimension"}

\* C30: every watcher of a dimension that discovery spawns at runtime, through
\* adjust_watchers called from discover_namespace or discover_resource, is
\* created with the freeze_mode toggle passed to discovery, the one the
\* meta-watchers hold, so that the toggle turned on pauses it.
C30_WatchersHoldTheToggle ==
    \A i \in DimensionWatchers : tasks[i].freeze = "toggle"

\* C31: interleaved calls of adjust_watchers are safe: with one call
\* suspended at the join of a cancelled watcher and another call run
\* meanwhile, no call fails with a KeyError, and once every call has returned
\* each pair of namespaces x resources, and no other pair, has a watcher task
\* that was not cancelled.
C31_InterleavingIsSafe ==
    /\ \A c \in Callers : calls_pc[c] /= "failed"
    /\ (\A c \in Callers : calls_pc[c] = "idle") => WatchersMatchDimensions

\* The versions a CRD serves, spec.versions[*].name.
ServedVersions(crd) == {crd.versions[i] : i \in 1..Len(crd.versions)}

\* C32: for a CRD that serves several versions, after an event of it that is
\* no deletion the dimensions hold the resource of every served version that
\* matches the glob of a registered handler, not of the first listed only.
C32_EveryServedVersion ==
    [][\A type \in EventTypes \ {"DELETED"}, crd \in CRDs :
          (lastOp' = "discover_resource" /\ discover_resource(type, crd)) =>
              \A version \in ServedVersions(crd) :
                  has_handlers(Resource(crd.group, version, crd.plural)) =>
                      Resource(crd.group, version, crd.plural) \in dimensions'.resources]_vars

\* C33: an error of the body that is not of the configured types, and any
\* error of a body that was advised not to run, propagates to the caller:
\* throttled is left at once, without the 2nd sleep, and active_until,
\* source_of_delays and last_used_delay are as they were.
C33_ErrorsEscalated ==
    [][(th_pc = "body" /\ (lastOp' = "other_error"
                             \/ (lastOp' = "error" /\ ~th_should_run))) =>
          /\ raised'
          /\ th_pc' = "idle"
          /\ throttler' = throttler
          /\ now' = now]_vars

\* C33 witness: an error of another type has escalated from a body advised
\* not to run, the throttling being active.
C33_Witness ==
    /\ lastOp = "other_error" /\ raised
    /\ ~th_should_run
    /\ throttler.active_until /= None
    /\ throttler.last_used_delay /= None
    /\ throttler.source_set

\* How many of the three readings hold of handler h in the body at this time.
ReadingsHeld(h) ==
    (IF is_finished(body, h) THEN 1 ELSE 0)
    + (IF is_sleeping(body, h, now) THEN 1 ELSE 0)
    + (IF is_awakened(body, h, now) THEN 1 ELSE 0)

\* The stored text of the field `delayed` of handler h, None if there is none.
DelayedOf(h) == Get(RecordOf(body, h), "delayed", None)

\* C34: of every handler and body exactly one of is_finished, is_sleeping and
\* is_awakened holds; is_sleeping holds iff the handler is not finished and
\* its `delayed` is set and later than now, is_awakened iff it is neither
\* finished nor sleeping; a finished handler is not sleeping whatever its
\* `delayed`, and an unfinished one with `delayed` null or past is awakened.
C34_OneReading ==
    \A h \in HandlerIds :
        /\ ReadingsHeld(h) = 1
        /\ is_sleeping(body, h, now) <=>
              /\ ~is_finished(body, h)
              /\ DelayedOf(h) /= None
              /\ fromisoformat(DelayedOf(h)) > now
        /\ is_awakened(body, h, now) <=>
              (~is_finished(body, h) /\ ~is_sleeping(body, h, now))
        /\ (HasSuccess(body, h) \/ HasFailure(body, h)) => ~is_sleeping(body, h, now)
        /\ (/\ ~HasSuccess(body, h) /\ ~HasFailure(body, h)
            /\ (DelayedOf(h) = None \/ fromisoformat(DelayedOf(h)) < now))
              => is_awakened(body, h, now)

\* C34 witness: one handler is finished with a `delayed` still ahead, the
\* other is unfinished with a `delayed` ahead too, hence sleeping.
C34_Witness ==
    \E h, g \in HandlerIds :
        /\ is_finished(body, h)
        /\ DelayedOf(h) /= None /\ fromisoformat(DelayedOf(h)) > now
        /\ ~is_finished(body, g)
        /\ DelayedOf(g) /= None /\ fromisoformat(DelayedOf(g)) > now

\* The progress of the body was purged by the step.
Purged == body.progressKey = "map" /\ body'.progressKey /= "map"

\* C35: each of set_retry_time, store_success and store_failure, as the
\* runner calls them for the outcome of an invocation, writes retries = the
\* retries read from the body (0 when absent) + 1; with the patch persisted
\* between the invocations, the retries of a handler, in the body with the
\* pending patch merged, are the number of its completed invocations of the
\* cycle; the retries of the body are never negative and never decrease
\* until the progress is purged.
C35_RetriesCountInvocations ==
    /\ [][lastOp' = "invoke" =>
            LET h == registry[idx].id
            IN  /\ RecordOf(patch', h)["retries"] = get_retry_count(body, h) + 1
                /\ Get(RecordOf(body, h), "retries", 0) = get_retry_count(body, h)]_vars
    /\ [](\A h \in HandlerIds :
            /\ get_retry_count(Merged, h) = calls[h]
            /\ get_retry_count(body, h) >= 0)
    /\ [][\A h \in HandlerIds :
            ~Purged => get_retry_count(body', h) >= get_retry_count(body, h)]_vars

\* C35 witness: the third invocation of a handler was persisted, two having
\* asked for a retry before, and the body counts three retries.
C35_Witness ==
    /\ lastOp = "end"
    /\ \E h \in HandlerIds :
          /\ calls[h] = 3
          /\ get_retry_count(body, h) = 3
          /\ is_finished(body, h)

\* The fields of a record that tell how the handler ended and how often.
OutcomeFields == {"success", "failure", "stopped", "retries"}

\* Two records agree on the fields F: each is in both with one value, or in none.
SameFields(r1, r2, F) ==
    \A k \in F : /\ k \in DOMAIN r1 <=> k \in DOMAIN r2
                 /\ k \in DOMAIN r1 => r1[k] = r2[k]

\* The step left alone everything of the patch but the record of handler h
\* and, if `results` is true, the results under status.<h>; and the body.
LocalTo(h, results) ==
    /\ body' = body
    /\ patch'.hasDigest = patch.hasDigest
    /\ patch'.digest = patch.digest
    /\ ProgressIsNull(patch') = ProgressIsNull(patch)
    /\ DOMAIN ProgressOf(patch') \ {h} = DOMAIN ProgressOf(patch) \ {h}
    /\ \A g \in DOMAIN ProgressOf(patch) \ {h} :
          ProgressOf(patch')[g] = ProgressOf(patch)[g]
    /\ DOMAIN patch'.results \ {h} = DOMAIN patch.results \ {h}
    /\ \A g \in DOMAIN patch.results \ {h} : patch'.results[g] = patch.results[g]
    /\ ~results => patch'.results = patch.results

\* C36: the writes of the progress of handler h are local: set_start_time,
\* set_awake_time, set_retry_time, store_failure and store_success change,
\* in the patch, the record status.kopf.progress.<h> only (store_success with
\* a result also status.<h>): the records and results of the other handlers,
\* the digest and the body are as before; and set_start_time and
\* set_awake_time leave success, failure, stopped and retries of h alone.
C36_WritesAreLocal ==
    [][\A h \in HandlerIds :
          /\ (lastOp' = "set_start_time" /\ SetStartTime(h)) =>
                /\ LocalTo(h, FALSE)
                /\ SameFields(RecordOf(patch', h), RecordOf(patch, h), OutcomeFields)
          /\ \A d \in Delays :
                /\ (lastOp' = "set_awake_time" /\ SetAwakeTime(h, d)) =>
                      /\ LocalTo(h, FALSE)
                      /\ SameFields(RecordOf(patch', h), RecordOf(patch, h), OutcomeFields)
                /\ (lastOp' = "set_retry_time" /\ SetRetryTime(h, d)) => LocalTo(h, FALSE)
          /\ \A exc \in Messages :
                (lastOp' = "store_failure" /\ StoreFailure(h, exc)) => LocalTo(h, FALSE)
          /\ \A r \in Results \cup MoreResults \cup {NoResult} :
                (lastOp' = "store_success" /\ StoreSuccess(h, r)) =>
                    LocalTo(h, r /= NoResult)]_vars

\* C36 witness: set_start_time has written into a patch that holds the
\* outcome of the same handler, the record of the other one and a digest.
C36_Witness ==
    /\ lastOp = "set_start_time" /\ ~raised
    /\ patch.hasDigest
    /\ \E h \in HandlerIds :
          /\ "started" \in DOMAIN RecordOf(patch, h)
          /\ OutcomeFields \cap DOMAIN RecordOf(patch, h) /= {}
          /\ \E g \in HandlerIds \ {h} : g \in DOMAIN ProgressOf(patch)

\* The writes of the progress of a handler.
ProgressWrites ==
    {"set_start_time", "set_awake_time", "set_retry_time", "store_success", "store_failure"}

\* C37: once purge_progress has written into a patch, every further write of
\* a handler's progress into the same patch (set_start_time, set_awake_time,
\* set_retry_time, store_success, store_failure) raises an error and writes
\* nothing: the null of the progress stays in the patch, no map replaces it,
\* until the patch is persisted.
C37_NoWriteAfterPurge ==
    /\ [][lastOp' = "purge_progress" => ProgressIsNull(patch')]_vars
    /\ [][(ProgressIsNull(patch) /\ lastOp' \in ProgressWrites) =>
            /\ raised'
            /\ patch' = patch]_vars
    /\ [][(ProgressIsNull(patch) /\ lastOp' /= "persist") =>
            ProgressIsNull(patch')]_vars

\* C37 witness: store_success with a result has raised on a purged patch.
C37_Witness ==
    /\ lastOp = "store_success" /\ raised
    /\ ProgressIsNull(patch)
    /\ patch.results = EmptyMap
    /\ \E h \in HandlerIds : is_started(body, h)

\* The instant active_until of the active throttling has passed.
ThrottlingOverdue == throttler.active_until /= None /\ throttler.active_until <= now

\* C38: the throttling always ends: active_until, once set, is never moved
\* (a wakeup, however often signalled, leaves it as it is or the sleep clears
\* it), and as soon as that instant has passed the next sleep of throttled
\* returns at once, clears active_until and the body is advised to run, even
\* with a wakeup that is set already and stays set.
C38_ThrottlingEnds ==
    /\ [][throttler.active_until /= None =>
            throttler'.active_until \in {None, throttler.active_until}]_vars
    /\ [][(ThrottlingOverdue /\ lastOp' = "enter") =>
            /\ sl_outcome' /= NotCalled
            /\ sl_outcome'.result = None
            /\ throttler'.active_until = None
            /\ th_should_run'
            /\ now' = now]_vars

\* C38 witness: after an error throttled was entered with the instant passed
\* and the wakeup set: the sleep was over at once, and the body is to run.
C38_Witness ==
    /\ lastOp = "enter"
    /\ sl_outcome /= NotCalled
    /\ sl_wake = 0
    /\ sl_delays.items[1] <= 0
    /\ throttler.active_until = None
    /\ throttler.last_used_delay /= None
    /\ th_should_run

\* C39: in every state of a throttler that started with all fields unset and
\* was used by throttled only: active_until set implies last_used_delay set,
\* and last_used_delay set implies source_of_delays initialised.
C39_ThrottlerFields ==
    /\ throttler.active_until /= None => throttler.last_used_delay /= None
    /\ throttler.last_used_delay /= None => throttler.source_set

\* C39 witness: the throttling is over, the sleep having reached its time,
\* and the last used delay and the iterator are still kept.
C39_Witness ==
    /\ lastOp = "enter"
    /\ sl_outcome /= NotCalled
    /\ throttler.active_until = None
    /\ throttler.last_used_delay /= None
    /\ throttler.source_set

\* C40: with an empty sequence of delays configured and no delay used before,
\* an error of the configured types of a body advised to run is swallowed and
\* the throttling is not activated: active_until and last_used_delay stay
\* unset, the exit of throttled sleeps not at all, and the next entry advises
\* the body to run, without a sleep.
C40_NoDelaysNoThrottling ==
    /\ [][(CapturedError /\ th_delays = <<>> /\ throttler.last_used_delay = None) =>
            /\ ~raised'
            /\ th_pc' = "exit"
            /\ throttler'.active_until = None
            /\ throttler'.last_used_delay = None]_vars
    /\ [][(th_delays = <<>> /\ lastOp' = "exit") =>
            /\ sl_outcome' = NotCalled
            /\ now' = now
            /\ throttler'.active_until = None]_vars
    /\ [][(th_delays = <<>> /\ lastOp' = "enter") =>
            /\ sl_outcome' = NotCalled
            /\ th_should_run']_vars

\* C40 witness: with no delays configured, throttled is entered again after
\* two errors were swallowed, and the body is advised to run.
C40_Witness ==
    /\ lastOp = "enter"
    /\ th_delays = <<>>
    /\ th_errors = 2
    /\ th_should_run
    /\ throttler.source_set
    /\ throttler.active_until = None

============================================================================
